---- MODULE Spec2Model ----
(***************************************************************************)
(* agent-worktree (wt): worktree lifecycle, merge state machine and the   *)
(* snap automation loop, modelled command by command.  Every invocation   *)
(* of the binary is one synchronous sequence of git subprocess calls, so  *)
(* a command is one action; the shell wrapper's snap loop and the direct  *)
(* loop of `wt new --snap` are processes with a position (snap.pc).       *)
(***************************************************************************)
EXTENDS Integers, Sequences, FiniteSets, TLC

\* ------------------------------------------------------------------------
\* Bounds and names
\* ------------------------------------------------------------------------

\* Commits ahead of trunk are counted up to MaxAhead ("MaxAhead or more").
MaxAhead == 1

\* Feature branch names the user may pass to `wt new`.
Names == {"a", "b"}

\* The trunk branch (detect_trunk: main > master > default "main").
Trunk == "main"

\* cwd value standing for the main repository checkout.
MainRepo == "<repo>"

\* What current_branch() prints while HEAD is detached (rebase in progress).
Detached == "HEAD"

\* MergeState file absent / hand-off file absent.
Absent == "<absent>"

Strategies == {"squash", "merge", "rebase"}

\* Outcome of a hook list: "none" is an empty list (nothing configured), "ok"
\* every hook succeeds, "fail" one of them fails.  The commands are run with
\* hooks configured; `--skip-hooks` gives the run without pre-merge hooks.
HookOutcomes == {"ok", "fail"}

VARIABLES
    branches,     \* feature branches that exist (refs/heads/*), trunk aside
    br,           \* per branch: commits ahead of trunk, content clash, content in trunk
    worktrees,    \* managed worktree directories {workspaceDir}/{branch}
    wtBranch,     \* per worktree directory: the branch checked out in it
    used,         \* history: the names a worktree was ever created under
    wtDirty,      \* per worktree: `git status --porcelain` is non-empty
    wtOp,         \* per worktree: the rebase or merge in progress in it
    metas,        \* metadata files {branch}.status.toml beside the worktrees
    tomls,        \* metadata files {branch}.toml: the name each was written for
    mainHead,     \* branch checked out in the main repository
    mainOp,       \* operation in progress in the main repository
    mainOpBranch, \* the branch that operation is merging or rebasing
    mainResolved, \* conflicts of mainOp resolved and staged by the user
    mainStale,    \* the branch got new commits after mainOp began
    mainEdit,     \* unstaged user edits in the main repository
    mergeState,   \* content of .git/WT_MERGE_BRANCH, or Absent
    pathFile,     \* lines of the hand-off file, or Absent
    snap,         \* the snap loop: mode, position, worktree, last exit status
    last,         \* what the last command invocation did
    probe         \* application of a pure function (decision table)

vars == <<branches, br, worktrees, wtBranch, used, wtDirty, wtOp, metas, tomls, mainHead,
          mainOp, mainOpBranch, mainResolved, mainStale, mainEdit, mergeState, pathFile, snap, last,
          probe>>

\* A branch just created from trunk: nothing ahead, content equal to trunk.
FreshBranch == [ahead |-> 0, clash |-> FALSE, integrated |-> TRUE]

NoSnap == [mode |-> "off", pc |-> "idle", branch |-> Absent, status |-> 0]

NoLast == [cmd |-> "none", branch |-> Absent, exit |-> 0, outcome |-> "none",
           steps |-> <<>>]

\* The record of one command invocation, from its result r.
Did(cmd, b, r) ==
    [cmd |-> cmd, branch |-> b, exit |-> r.exit, outcome |-> r.outcome,
     steps |-> r.steps]

NoProbe == [fn |-> "none"]

Has(seq, x) == \E i \in 1..Len(seq) : seq[i] = x

\* The repository, worktree store and MergeState as one value; every git
\* call and every command below maps such a value to the next one.
Cur ==
    [branches |-> branches, br |-> br, worktrees |-> worktrees,
     wtBranch |-> wtBranch, used |-> used,
     wtDirty |-> wtDirty, wtOp |-> wtOp, metas |-> metas,
     tomls |-> tomls, mainHead |-> mainHead,
     mainOp |-> mainOp, mainOpBranch |-> mainOpBranch,
     mainResolved |-> mainResolved, mainStale |-> mainStale,
     mainEdit |-> mainEdit, mergeState |-> mergeState]

Set(s) ==
    /\ branches' = s.branches
    /\ br' = s.br
    /\ worktrees' = s.worktrees
    /\ wtBranch' = s.wtBranch
    /\ used' = s.used
    /\ wtDirty' = s.wtDirty
    /\ wtOp' = s.wtOp
    /\ metas' = s.metas
    /\ tomls' = s.tomls
    /\ mainHead' = s.mainHead
    /\ mainOp' = s.mainOp
    /\ mainOpBranch' = s.mainOpBranch
    /\ mainResolved' = s.mainResolved
    /\ mainStale' = s.mainStale
    /\ mainEdit' = s.mainEdit
    /\ mergeState' = s.mergeState

\* The main repository with no operation in progress.
Settled(s) ==
    [s EXCEPT !.mainOp = "none", !.mainOpBranch = Absent,
              !.mainResolved = FALSE, !.mainStale = FALSE]

\* ------------------------------------------------------------------------
\* git queries and calls (src/git/mod.rs)
\* ------------------------------------------------------------------------

\* is_merge_in_progress: MERGE_HEAD exists (a squash conflict leaves none)
is_merge_in_progress(s) == s.mainOp = "merge"

\* is_rebase_in_progress: rebase-merge or rebase-apply exists
is_rebase_in_progress(s) == s.mainOp = "rebase"

\* has_uncommitted_changes in the main repository: `git status --porcelain`
\* prints something (staged, unmerged or edited files)
MainUncommitted(s) == s.mainOp # "none" \/ s.mainEdit # "none"

\* Variant: a status check that never sees a change
never_uncommitted(s, cwd) == FALSE

\* has_uncommitted_changes at a working directory
has_uncommitted_changes(s, cwd) ==
    IF cwd = MainRepo THEN MainUncommitted(s) ELSE s.wtDirty[cwd]

\* current_branch at a working directory (HEAD is detached during a rebase)
current_branch(s, cwd) ==
    IF cwd = MainRepo
    THEN (IF s.mainOp = "rebase" THEN Detached ELSE s.mainHead)
    ELSE s.wtBranch[cwd]

\* commit_count(trunk, branch) > 0
commits_ahead(s, b) == b \in s.branches /\ s.br[b].ahead > 0

\* Some managed worktree has branch b checked out
in_worktree(s, b) == \E d \in s.worktrees : s.wtBranch[d] = b

\* `git checkout <branch>` in the main repository refuses a branch that is
\* checked out in another worktree, and refuses while the index is unmerged.
checkout_ok(s, b) ==
    /\ s.mainOp = "none"
    /\ b = Trunk \/ (b \in s.branches /\ ~in_worktree(s, b))

checkout(s, b) == [s EXCEPT !.mainHead = b]

\* list_worktrees has an entry with this branch (the main checkout included)
has_worktree(s, b) == in_worktree(s, b) \/ s.mainHead = b

\* remove_worktree(path, force): without --force git refuses a worktree
\* that contains modified or untracked files
remove_worktree_ok(s, b, force) == b \in s.worktrees /\ (force \/ ~s.wtDirty[b])

remove_worktree(s, b) ==
    [s EXCEPT !.worktrees = @ \ {b}, !.wtBranch[b] = b, !.wtDirty[b] = FALSE,
              !.wtOp[b] = "none"]

\* delete_branch(name, force): git refuses a branch checked out in any worktree;
\* -d also refuses a branch that is not merged
delete_branch_ok(s, b, force) ==
    /\ b \in s.branches
    /\ ~has_worktree(s, b)
    /\ force \/ s.br[b].ahead = 0

delete_branch(s, b) ==
    [s EXCEPT !.branches = @ \ {b}, !.br[b] = FreshBranch]

\* Outcome of `git merge --abort`: needs MERGE_HEAD, and like reset --merge
\* it stops when a file the merge staged has unstaged edits
merge_abort_ok(s) == s.mainOp = "merge" /\ s.mainEdit # "staged"

\* Outcome of `git rebase --abort`: needs a rebase in progress
rebase_abort_ok(s) == s.mainOp = "rebase"

\* Outcome of `git reset --merge`: succeeds on a clean repository
\* (test_reset_merge_clean_repo), stops on unstaged edits of a staged file
reset_merge_ok(s) == s.mainEdit # "staged"

\* merge --abort and reset --merge keep unstaged edits
reset_merge(s) == Settled(s)

\* rebase --abort returns to the original branch with a clean tree
rebase_abort(s) == [Settled(s) EXCEPT !.mainEdit = "none"]

\* ------------------------------------------------------------------------
\* Metadata files (src/meta/mod.rs)
\* ------------------------------------------------------------------------

\* The file meta_path_with_fallback names: {branch}.toml if it exists,
\* else {branch}.status.toml if it exists, else {branch}.toml
meta_path_with_fallback(s, b) ==
    IF s.tomls[b] # Absent THEN "toml"
    ELSE IF b \in s.metas THEN "status.toml"
    ELSE "toml"

\* remove_meta: both file names are tried
remove_meta(s, b) == [s EXCEPT !.metas = @ \ {b}, !.tomls[b] = Absent]

\* std::fs::rename(old_meta, meta_path(new)).ok(): the file found for old
\* becomes {new}.toml with its content, replacing a file of that name;
\* without a file for old nothing happens.  {old}.status.toml holds what
\* `wt new old` wrote.
rename_meta(s, old, new) ==
    IF meta_path_with_fallback(s, old) = "status.toml"
    THEN [s EXCEPT !.metas = @ \ {old}, !.tomls[new] = old]
    ELSE IF s.tomls[old] # Absent /\ old # new
    THEN [s EXCEPT !.tomls[new] = s.tomls[old], !.tomls[old] = Absent]
    ELSE s

\* A metadata file of either name exists for b
has_meta(s, b) == b \in s.metas \/ s.tomls[b] # Absent

\* ------------------------------------------------------------------------
\* MergeState marker (src/cli/commands/merge.rs)
\* ------------------------------------------------------------------------

\* Variant: the marker is not written
skip_merge_state(s, branch) == s

save_merge_state(s, branch) == [s EXCEPT !.mergeState = branch]

load_merge_state(s) == s.mergeState

clear_merge_state(s) == [s EXCEPT !.mergeState = Absent]

\* ------------------------------------------------------------------------
\* Merge orchestration (src/cli/commands/merge.rs)
\* ------------------------------------------------------------------------

\* The main repository stopped in the middle of merging or rebasing b.
Stopped(s, op, b, resolved) ==
    [s EXCEPT !.mainOp = op, !.mainOpBranch = b, !.mainResolved = resolved,
              !.mainStale = FALSE]

\* Branch b after its commits became part of trunk (merge, fast-forward).
Absorbed(s, b) == [s EXCEPT !.br[b] = FreshBranch]

\* Branch b after its content was committed to trunk as one squash commit.
Squashed(s, b) == [s EXCEPT !.br[b].integrated = TRUE, !.br[b].clash = FALSE]

\* execute_merge: the caller is on trunk.  res is "true" (changes merged),
\* "false" (already up to date) or "err" (any git call failed).
execute_merge(s, b, strategy, commitOk) ==
    CASE strategy = "squash" ->
           IF s.br[b].clash
           THEN [res |-> "err", s |-> Stopped(s, "squash", b, FALSE),
                 steps |-> <<"git_merge">>]
           ELSE IF s.br[b].integrated
           THEN [res |-> "false", s |-> s, steps |-> <<"git_merge", "nothing_staged">>]
           ELSE IF commitOk
           THEN [res |-> "true", s |-> Squashed(s, b),
                 steps |-> <<"git_merge", "git_commit">>]
           ELSE [res |-> "err", s |-> Stopped(s, "squash", b, TRUE),
                 steps |-> <<"git_merge">>]
      [] strategy = "merge" ->
           IF s.br[b].clash
           THEN [res |-> "err", s |-> Stopped(s, "merge", b, FALSE),
                 steps |-> <<"git_merge">>]
           ELSE [res |-> "true", s |-> Absorbed(s, b),
                 steps |-> <<"git_merge", "git_commit">>]
      [] strategy = "rebase" ->
           IF ~checkout_ok(s, b)
           THEN [res |-> "err", s |-> s, steps |-> <<>>]
           ELSE IF s.br[b].clash
           THEN [res |-> "err", s |-> Stopped(checkout(s, b), "rebase", b, FALSE),
                 steps |-> <<"git_rebase">>]
           ELSE [res |-> "true", s |-> Absorbed(checkout(s, Trunk), b),
                 steps |-> <<"git_rebase", "git_merge">>]

\* Variant: every attempt is made, whatever the earlier ones returned
abort_merge_try_all(s) ==
    LET s1 == IF merge_abort_ok(s) THEN reset_merge(s) ELSE s
        s2 == IF rebase_abort_ok(s1) THEN rebase_abort(s1) ELSE s1
        s3 == IF reset_merge_ok(s2) THEN reset_merge(s2) ELSE s2
    IN [ok |-> merge_abort_ok(s) \/ rebase_abort_ok(s1) \/ reset_merge_ok(s2),
        s |-> s3,
        steps |-> <<IF merge_abort_ok(s) THEN "merge_abort:ok" ELSE "merge_abort:fail",
                    IF rebase_abort_ok(s1) THEN "rebase_abort:ok" ELSE "rebase_abort:fail",
                    IF reset_merge_ok(s2) THEN "reset_merge:ok" ELSE "reset_merge:fail">>]

\* abort_merge: merge --abort, then rebase --abort, then reset --merge;
\* the first that succeeds wins.
abort_merge(s) ==
    IF merge_abort_ok(s)
    THEN [ok |-> TRUE, s |-> reset_merge(s), steps |-> <<"merge_abort:ok">>]
    ELSE IF rebase_abort_ok(s)
    THEN [ok |-> TRUE, s |-> rebase_abort(s),
          steps |-> <<"merge_abort:fail", "rebase_abort:ok">>]
    ELSE IF reset_merge_ok(s)
    THEN [ok |-> TRUE, s |-> reset_merge(s),
          steps |-> <<"merge_abort:fail", "rebase_abort:fail", "reset_merge:ok">>]
    ELSE [ok |-> FALSE, s |-> s,
          steps |-> <<"merge_abort:fail", "rebase_abort:fail", "reset_merge:fail">>]

\* The commit that finishes a stopped merge or squash: trunk now holds what the
\* branch held when the operation began.
Committed(s) ==
    LET b == s.mainOpBranch
        s1 == [Settled(s) EXCEPT
                 !.mainEdit = IF @ = "staged" THEN "other" ELSE @]
    IN IF b \notin s.branches \/ s.mainStale THEN s1
       ELSE IF s.mainOp = "merge" THEN Absorbed(s1, b)
       ELSE Squashed(s1, b)

\* continue_merge: `git rebase --continue`; failing that, commit what is staged
continue_merge(s, commitOk) ==
    IF s.mainOp = "rebase" /\ s.mainResolved
    THEN [ok |-> TRUE,
          s |-> [Settled(s) EXCEPT !.br[s.mainOpBranch].clash = FALSE],
          steps |-> <<"rebase_continue:ok">>]
    ELSE IF MainUncommitted(s)
            /\ s.mainOp \in {"squash", "merge"} /\ s.mainResolved /\ commitOk
    THEN [ok |-> TRUE, s |-> Committed(s),
          steps |-> <<"rebase_continue:fail", "git_commit">>]
    ELSE [ok |-> FALSE, s |-> s, steps |-> <<"rebase_continue:fail">>]

\* cleanup_worktree of merge.rs: remove_worktree(path, false).ok(),
\* delete_branch(branch, true).ok(), remove the metadata file
merge_cleanup_worktree(s, b) ==
    IF b \notin s.worktrees THEN s
    ELSE LET s1 == IF remove_worktree_ok(s, b, FALSE) THEN remove_worktree(s, b) ELSE s
             s2 == IF delete_branch_ok(s1, b, TRUE) THEN delete_branch(s1, b) ELSE s1
         IN [s2 EXCEPT !.metas = @ \ {b}]

Result(s, exit, outcome, steps) ==
    [s |-> s, exit |-> exit, outcome |-> outcome, steps |-> steps]

Step(cond, name) == IF cond THEN <<name>> ELSE <<>>

\* run_hooks returned Err(HookFailed): the caller's `?` returns it
HookFailed == <<"HookFailed">>

\* run of merge.rs without --continue and --abort (lines 128-224).
\* pf: a hand-off file path was supplied.
merge_run(s, cwd, strategy, keep, skip_hooks, pre, post, commitOk, pf) ==
    LET current == current_branch(s, cwd)
        inside_worktree == cwd # MainRepo
        runsPre == ~skip_hooks /\ pre # "none"
        st1 == Step(runsPre, "pre_merge_hooks")
        s2 == checkout(s, Trunk)
        m == execute_merge(s2, current, strategy, commitOk)
        st2 == st1 \o <<"checkout_trunk">> \o m.steps
        st3 == st2 \o Step(post # "none", "post_merge_hooks")
        s4 == IF keep THEN m.s ELSE merge_cleanup_worktree(m.s, current)
        handoff == Step(pf /\ inside_worktree, "write_path_file")
    IN IF current = Trunk THEN Result(s, 1, "trunk_into_itself", <<>>)
       ELSE IF has_uncommitted_changes(s, cwd) THEN Result(s, 1, "uncommitted", <<>>)
       ELSE IF runsPre /\ pre = "fail" THEN Result(s, 1, "pre_hook_failed", st1 \o HookFailed)
       ELSE IF MainUncommitted(s) \/ is_merge_in_progress(s) \/ is_rebase_in_progress(s)
       THEN Result(s, 1, "main_dirty", st1)
       ELSE IF ~checkout_ok(s, Trunk) THEN Result(s, 1, "checkout_failed", st1)
       ELSE IF m.res = "err"
       THEN Result(save_merge_state(m.s, current), 0, "conflict",
                   st2 \o <<"save_merge_state">> \o handoff)
       ELSE IF post = "fail" THEN Result(m.s, 1, "post_hook_failed", st3 \o HookFailed)
       ELSE Result(s4, 0, IF m.res = "true" THEN "merged" ELSE "nothing_to_merge",
                   st3 \o Step(~keep, "cleanup_worktree") \o handoff)

\* Variant: the marker is cleared whatever abort_merge returned
merge_abort_run_always_clear(s) ==
    LET a == abort_merge(s)
    IN IF ~a.ok THEN Result(clear_merge_state(s), 1, "abort_failed", a.steps)
       ELSE Result(clear_merge_state(a.s), 0, "aborted",
                   a.steps \o <<"clear_merge_state">>)

\* run with --abort (lines 93-100)
merge_abort_run(s) ==
    LET a == abort_merge(s)
    IN IF ~a.ok THEN Result(s, 1, "abort_failed", a.steps)
       ELSE Result(clear_merge_state(a.s), 0, "aborted",
                   a.steps \o <<"clear_merge_state">>)

\* Variant: the marker is cleared before continue_merge is tried
merge_continue_run_clear_first(s, keep, post, commitOk, pf) ==
    LET c == continue_merge(s, commitOk)
    IN IF ~c.ok THEN Result(clear_merge_state(s), 1, "continue_failed", c.steps)
       ELSE Result(clear_merge_state(c.s), 0, "merged",
                   c.steps \o <<"clear_merge_state">>)

\* Variant: the cleanup runs before the post-merge hooks
merge_continue_run_cleanup_first(s, keep, post, commitOk, pf) ==
    LET branch == load_merge_state(s)
        c == continue_merge(s, commitOk)
        s1 == clear_merge_state(c.s)
        s2 == IF branch # Absent THEN merge_cleanup_worktree(s1, branch) ELSE s1
        st2 == c.steps \o <<"clear_merge_state">>
                 \o Step(branch # Absent, "cleanup_worktree")
                 \o Step(post # "none", "post_merge_hooks")
    IN IF ~c.ok THEN Result(s, 1, "continue_failed", c.steps)
       ELSE IF post = "fail" THEN Result(s2, 1, "post_hook_failed", st2 \o HookFailed)
       ELSE Result(s2, 0, "merged", st2 \o Step(pf, "write_path_file"))

\* Variant: the hand-off file is written before continue_merge is tried
merge_continue_run_handoff_first(s, keep, post, commitOk, pf) ==
    LET branch == load_merge_state(s)
        c == continue_merge(s, commitOk)
        s1 == clear_merge_state(c.s)
        st1 == Step(pf, "write_path_file") \o c.steps \o <<"clear_merge_state">>
        st2 == st1 \o Step(post # "none", "post_merge_hooks")
        s2 == IF branch # Absent THEN merge_cleanup_worktree(s1, branch) ELSE s1
    IN IF ~c.ok
       THEN Result(s, 1, "continue_failed", Step(pf, "write_path_file") \o c.steps)
       ELSE IF post = "fail" THEN Result(s1, 1, "post_hook_failed", st2 \o HookFailed)
       ELSE Result(s2, 0, "merged",
                   st2 \o Step(branch # Absent, "cleanup_worktree"))

\* run with --continue (lines 102-126); args.keep is not read on this path
merge_continue_run(s, keep, post, commitOk, pf) ==
    LET branch == load_merge_state(s)
        c == continue_merge(s, commitOk)
        s1 == clear_merge_state(c.s)
        st1 == c.steps \o <<"clear_merge_state">>
        st2 == st1 \o Step(post # "none", "post_merge_hooks")
        s2 == IF branch # Absent THEN merge_cleanup_worktree(s1, branch) ELSE s1
    IN IF ~c.ok THEN Result(s, 1, "continue_failed", c.steps)
       ELSE IF post = "fail" THEN Result(s1, 1, "post_hook_failed", st2 \o HookFailed)
       ELSE Result(s2, 0, "merged",
                   st2 \o Step(branch # Absent, "cleanup_worktree")
                       \o Step(pf, "write_path_file"))

\* ------------------------------------------------------------------------
\* Snap decision and snap-continue (src/cli/commands/snap_continue.rs)
\* ------------------------------------------------------------------------

\* Answers of prompt::snap_merge_prompt / snap_exit_prompt; "err" is a prompt
\* that failed (Err(_)).
MergeAnswers == {"merge", "exit", "err"}

ExitAnswers == {"reopen", "exit", "err"}

\* Option<SnapExitChoice> / Option<SnapMergeChoice> of the prompt-free variant
ExitChoices == {"Reopen", "Exit", "None"}

MergeChoices == {"Merge", "Exit", "None"}

\* Variant: only an explicit exit keeps the branch from being merged
determine_action_merge_unless_exit(has_uncommitted, has_commits_ahead, merge_answer, exit_answer) ==
    IF ~has_uncommitted /\ ~has_commits_ahead THEN "CleanupNoChanges"
    ELSE IF ~has_uncommitted /\ has_commits_ahead
    THEN (IF merge_answer # "exit" THEN "MergeAndCleanup" ELSE "ExitPreserve")
    ELSE (IF exit_answer = "reopen" THEN "Reopen" ELSE "ExitPreserve")

\* Variant: a prompt that failed counts as the first answer offered
determine_action_error_is_yes(has_uncommitted, has_commits_ahead, merge_answer, exit_answer) ==
    IF ~has_uncommitted /\ ~has_commits_ahead THEN "CleanupNoChanges"
    ELSE IF ~has_uncommitted /\ has_commits_ahead
    THEN (IF merge_answer \in {"merge", "err"} THEN "MergeAndCleanup" ELSE "ExitPreserve")
    ELSE (IF exit_answer \in {"reopen", "err"} THEN "Reopen" ELSE "ExitPreserve")

\* determine_action: the prompt asked depends on the context
determine_action(has_uncommitted, has_commits_ahead, merge_answer, exit_answer) ==
    IF ~has_uncommitted /\ ~has_commits_ahead THEN "CleanupNoChanges"
    ELSE IF ~has_uncommitted /\ has_commits_ahead
    THEN (IF merge_answer = "merge" THEN "MergeAndCleanup" ELSE "ExitPreserve")
    ELSE (IF exit_answer = "reopen" THEN "Reopen" ELSE "ExitPreserve")

\* The prompt determine_action shows, with the answer it got
PromptSteps(has_uncommitted, has_commits_ahead, merge_answer, exit_answer) ==
    IF ~has_uncommitted /\ ~has_commits_ahead THEN <<>>
    ELSE IF ~has_uncommitted /\ has_commits_ahead
    THEN <<"snap_merge_prompt", merge_answer>>
    ELSE <<"snap_exit_prompt", exit_answer>>

\* Variant that looks at the commits before the uncommitted changes
determine_action_commits_first(has_uncommitted, has_commits_ahead, exit_choice, merge_choice) ==
    IF ~has_uncommitted /\ ~has_commits_ahead THEN "CleanupNoChanges"
    ELSE IF has_commits_ahead
    THEN (IF merge_choice = "Merge" THEN "MergeAndCleanup" ELSE "ExitPreserve")
    ELSE (IF exit_choice = "Reopen" THEN "Reopen" ELSE "ExitPreserve")

\* determine_action_with_choice (cfg(test))
determine_action_with_choice(has_uncommitted, has_commits_ahead, exit_choice, merge_choice) ==
    IF ~has_uncommitted /\ ~has_commits_ahead THEN "CleanupNoChanges"
    ELSE IF ~has_uncommitted /\ has_commits_ahead
    THEN (IF merge_choice = "Merge" THEN "MergeAndCleanup" ELSE "ExitPreserve")
    ELSE (IF exit_choice = "Reopen" THEN "Reopen" ELSE "ExitPreserve")

\* Variant: the cleanup removes the metadata only
snap_cleanup_keeps_worktree(s, b) == remove_meta(s, b)

\* cleanup_worktree of snap_continue.rs: remove_worktree(path, true)?,
\* delete_branch(branch, true).ok(), remove_meta
snap_cleanup_worktree(s, b) ==
    LET s1 == remove_worktree(s, b)
        s2 == IF delete_branch_ok(s1, b, TRUE) THEN delete_branch(s1, b) ELSE s1
    IN remove_meta(s2, b)

\* What execute_action does to the main repository after a failed merge:
\* reset --merge, rebase --abort and checkout of the branch, each .ok()
snap_rollback(s, b) ==
    LET s1 == IF reset_merge_ok(s) THEN reset_merge(s) ELSE s
        s2 == IF rebase_abort_ok(s1) THEN rebase_abort(s1) ELSE s1
    IN IF checkout_ok(s2, b) THEN checkout(s2, b) ELSE s2

\* execute_action for the decided action; the result's exit is the process
\* exit code and file the hand-off file content it leaves.
execute_action(s, b, action, strategy, pre, post, commitOk) ==
    LET R(s1, exit, steps, file) ==
            [s |-> s1, exit |-> exit, outcome |-> action, steps |-> steps,
             file |-> file]
        st1 == Step(pre # "none", "pre_merge_hooks")
        s2 == checkout(s, Trunk)
        m == execute_merge(s2, b, strategy, commitOk)
        st2 == st1 \o <<"checkout_trunk">> \o m.steps
        st3 == st2 \o Step(post # "none", "post_merge_hooks")
    IN CASE action = "CleanupNoChanges" ->
              IF ~remove_worktree_ok(s, b, TRUE) THEN R(s, 1, <<>>, Absent)
              ELSE R(snap_cleanup_worktree(s, b), 0,
                     <<"cleanup_worktree", "write_path_file">>, <<MainRepo>>)
         [] action = "MergeAndCleanup" ->
              IF pre = "fail" THEN R(s, 1, st1 \o HookFailed, Absent)
              ELSE IF ~checkout_ok(s, Trunk) THEN R(s, 1, st1, Absent)
              ELSE IF m.res = "err"
              THEN R(snap_rollback(m.s, b), 3, st2 \o <<"rollback">>, Absent)
              ELSE IF post = "fail" THEN R(m.s, 1, st3 \o HookFailed, Absent)
              ELSE IF ~remove_worktree_ok(m.s, b, TRUE) THEN R(m.s, 1, st3, Absent)
              ELSE R(snap_cleanup_worktree(m.s, b), 0,
                     st3 \o <<"cleanup_worktree", "write_path_file">>, <<MainRepo>>)
         [] action = "Reopen" -> R(s, 2, <<>>, Absent)
         [] action = "ExitPreserve" -> R(s, 3, <<>>, Absent)

\* run of snap_continue.rs in the worktree of branch b: gather_context,
\* determine_action, execute_action
snap_continue_run(s, b, merge_answer, exit_answer, strategy, pre, post, commitOk) ==
    LET hu == has_uncommitted_changes(s, b)
        ha == commits_ahead(s, b)
        action == determine_action(hu, ha, merge_answer, exit_answer)
        e == execute_action(s, b, action, strategy, pre, post, commitOk)
    IN [e EXCEPT !.steps = PromptSteps(hu, ha, merge_answer, exit_answer) \o @]

\* ------------------------------------------------------------------------
\* wt new and its direct snap loop (src/cli/commands/new.rs)
\* ------------------------------------------------------------------------

\* Variant: a name that was ever taken is refused
create_worktree_error_if_used(s, b) ==
    IF b \in s.used THEN "WorktreeExists"
    ELSE IF b \in s.worktrees THEN "Command"
    ELSE "none"

\* create_worktree (git/mod.rs 211-245), the error it returns: WorktreeExists
\* for an existing branch that list_worktrees shows checked out; the error
\* of `git worktree add` when the path is already there; else none
create_worktree_error(s, b) ==
    IF b \in s.branches /\ has_worktree(s, b) THEN "WorktreeExists"
    ELSE IF b \in s.worktrees THEN "Command"
    ELSE "none"

create_worktree_ok(s, b) == create_worktree_error(s, b) = "none"

\* An existing branch is checked out in the new worktree, a new one is
\* created from the base
create_worktree(s, b) ==
    [s EXCEPT !.branches = @ \cup {b}, !.worktrees = @ \cup {b},
              !.wtBranch[b] = b, !.wtDirty[b] = FALSE, !.used = @ \cup {b},
              !.br[b] = IF b \in s.branches THEN @ ELSE FreshBranch]

\* Variant: a failing post-create hook is reported and the run goes on
new_run_hooks_advisory(s, b, post_create) ==
    LET s1 == create_worktree(s, b)
        s2 == [s1 EXCEPT !.metas = @ \cup {b}]
        st == <<"create_worktree", "save_meta">>
                 \o Step(post_create # "none", "post_create_hooks")
    IN IF ~create_worktree_ok(s, b)
       THEN Result(s, 1, create_worktree_error(s, b), <<>>)
       ELSE IF post_create = "fail" THEN Result(s2, 0, "created", st \o HookFailed)
       ELSE Result(s2, 0, "created", st)

\* run of new.rs up to the hand-off (lines 31-81): worktree, metadata,
\* post-create hooks
new_run(s, b, post_create) ==
    LET s1 == create_worktree(s, b)
        s2 == [s1 EXCEPT !.metas = @ \cup {b}]
        st == <<"create_worktree", "save_meta">>
                 \o Step(post_create # "none", "post_create_hooks")
    IN IF ~create_worktree_ok(s, b)
       THEN Result(s, 1, create_worktree_error(s, b), <<>>)
       ELSE IF post_create = "fail" THEN Result(s2, 1, "post_create_failed", st \o HookFailed)
       ELSE Result(s2, 0, "created", st)

\* run of new.rs (lines 31-81) with a --base that may not resolve and a
\* metadata file that may not be writable.  `git worktree add -b` with an
\* invalid base creates nothing; an existing branch is checked out
\* whatever the base is.  Every later failure returns with `?`.
new_run_from(s, b, base_ok, save_ok, post_create) ==
    LET s1 == create_worktree(s, b)
        s2 == [s1 EXCEPT !.metas = @ \cup {b}]
        st == <<"create_worktree", "save_meta">>
                 \o Step(post_create # "none", "post_create_hooks")
    IN IF ~create_worktree_ok(s, b)
       THEN Result(s, 1, create_worktree_error(s, b), <<>>)
       ELSE IF b \notin s.branches /\ ~base_ok
       THEN Result(s, 1, "Command", <<>>)
       ELSE IF ~save_ok
       THEN Result(s1, 1, "save_meta_failed", <<"create_worktree">>)
       ELSE IF post_create = "fail"
       THEN Result(s2, 1, "post_create_failed", st \o HookFailed)
       ELSE Result(s2, 0, "created", st)

\* cleanup_worktree of new.rs: forced removal, branch -D, metadata
new_cleanup_worktree(s, b) ==
    LET s1 == remove_worktree(s, b)
        s2 == IF delete_branch_ok(s1, b, TRUE) THEN delete_branch(s1, b) ELSE s1
    IN [s2 EXCEPT !.metas = @ \ {b}]

\* do_merge of new.rs: hooks, checkout trunk, merge by strategy, cleanup.
\* Every git failure is returned with `?`; nothing is rolled back.
do_merge(s, b, strategy, pre, post, commitOk) ==
    LET st1 == Step(pre # "none", "pre_merge_hooks")
        s2 == checkout(s, Trunk)
        st2 == st1 \o <<"checkout_trunk">>
        clash == s2.br[b].clash
        m == CASE strategy = "squash" ->
                    IF clash THEN [ok |-> FALSE, s |-> Stopped(s2, "squash", b, FALSE)]
                    ELSE IF s2.br[b].integrated THEN [ok |-> FALSE, s |-> s2]
                    ELSE IF commitOk THEN [ok |-> TRUE, s |-> Squashed(s2, b)]
                    ELSE [ok |-> FALSE, s |-> Stopped(s2, "squash", b, TRUE)]
               [] strategy = "merge" ->
                    IF clash THEN [ok |-> FALSE, s |-> Stopped(s2, "merge", b, FALSE)]
                    ELSE [ok |-> TRUE, s |-> Absorbed(s2, b)]
               [] strategy = "rebase" ->
                    IF ~checkout_ok(s2, b) THEN [ok |-> FALSE, s |-> s2]
                    ELSE IF clash
                    THEN [ok |-> FALSE, s |-> Stopped(checkout(s2, b), "rebase", b, FALSE)]
                    ELSE [ok |-> TRUE, s |-> Absorbed(checkout(s2, Trunk), b)]
        mst == IF strategy = "rebase" /\ ~checkout_ok(s2, b) THEN <<>>
               ELSE IF strategy = "squash" /\ ~clash /\ s2.br[b].integrated
               THEN <<"git_merge", "nothing_staged">>
               ELSE <<"git_merge">>
        st3 == st2 \o mst \o Step(post # "none", "post_merge_hooks")
    IN IF pre = "fail" THEN Result(s, 1, "pre_hook_failed", st1 \o HookFailed)
       ELSE IF ~checkout_ok(s, Trunk) THEN Result(s, 1, "checkout_failed", st1)
       ELSE IF ~m.ok THEN Result(m.s, 1, "merge_failed", st2 \o mst)
       ELSE IF post = "fail" THEN Result(m.s, 1, "post_hook_failed", st3 \o HookFailed)
       ELSE Result(new_cleanup_worktree(m.s, b), 0, "merged",
                   st3 \o <<"cleanup_worktree">>)

\* One iteration of run_snap_mode after the agent returned (lines 165-204).
\* again: the loop runs the agent once more.
run_snap_mode(s, b, status, exit_answer, strategy, pre, post, commitOk) ==
    LET hu == has_uncommitted_changes(s, b)
        ha == commits_ahead(s, b)
        R(r, again) == [s |-> r.s, exit |-> r.exit, outcome |-> r.outcome,
                        steps |-> r.steps, again |-> again]
    IN IF status # 0 THEN R(Result(s, 0, "agent_abnormal", <<>>), FALSE)
       ELSE IF ~hu /\ ~ha
       THEN R(Result(new_cleanup_worktree(s, b), 0, "CleanupNoChanges",
                     <<"cleanup_worktree">>), FALSE)
       ELSE IF ~hu /\ ha THEN R(do_merge(s, b, strategy, pre, post, commitOk), FALSE)
       ELSE IF exit_answer = "reopen"
       THEN R(Result(s, 0, "Reopen", <<"snap_exit_prompt", exit_answer>>), TRUE)
       ELSE R(Result(s, 0, "ExitPreserve", <<"snap_exit_prompt", exit_answer>>), FALSE)

\* ------------------------------------------------------------------------
\* The worktree store: wt rm, wt mv, wt clean, wt ls
\* (src/cli/commands/rm.rs, move.rs, clean.rs, ls.rs)
\* ------------------------------------------------------------------------

\* git::workspace_id(): "{repo_name}-{hash:06x}", the directory under
\* workspaces_dir in which `wt new` puts its worktrees
WorkspaceId == "repo-a1b2c3"

\* git::repo_name(): the directory name of the repository
RepoName == "repo"

\* {workspaces_dir}/{root}/{name} exists.  The worktrees of the repository
\* are under the WorkspaceId directory; the program creates nothing under
\* any other.
wt_path_exists(s, root, name) == root = WorkspaceId /\ name \in s.worktrees

\* {workspaces_dir}/{root} exists: `wt new` makes the WorkspaceId directory
\* before its first worktree, and nothing removes it
wt_dir_exists(s, root) == root = WorkspaceId /\ s.used # {}

\* The entries of list_worktrees whose path starts with
\* {workspaces_dir}/{root}, as directory names in the order of the listing
NameOrder == <<"a", "b">>

managed(s, root) ==
    LET under(d) == root = WorkspaceId /\ d \in s.worktrees
    IN SelectSeq(NameOrder, under)

\* ls.rs 19-20: wt_dir = workspaces_dir.join(workspace_id)
ls_root == WorkspaceId

\* run of ls.rs: the rows it prints, one per managed worktree
ls_run(s) ==
    IF ~wt_dir_exists(s, ls_root) \/ managed(s, ls_root) = <<>>
    THEN Result(s, 0, "no_worktrees", <<>>)
    ELSE Result(s, 0, "listed", managed(s, ls_root))

\* clean.rs 14-15: wt_dir = workspaces_dir.join(repo_name)
clean_root == RepoName

\* has_diff_from(branch, trunk): the three-dot diff is not empty, or the
\* branch has commits that trunk has not
has_diff_from(s, b) == s.br[b].ahead > 0

\* The loop of clean.rs (32-68) over the entries dirs: an entry whose branch
\* has no diff from trunk is removed without --force (.ok()), its branch
\* deleted with -d (.ok()), its metadata file removed
RECURSIVE clean_loop(_, _)
clean_loop(s, dirs) ==
    IF dirs = <<>> THEN s
    ELSE LET d == Head(dirs)
             b == s.wtBranch[d]
             s1 == IF remove_worktree_ok(s, d, FALSE) THEN remove_worktree(s, d)
                   ELSE s
             s2 == IF delete_branch_ok(s1, b, FALSE) THEN delete_branch(s1, b)
                   ELSE s1
             s3 == [s2 EXCEPT !.metas = @ \ {b}]
         IN IF b = Trunk \/ has_diff_from(s, b) THEN clean_loop(s, Tail(dirs))
            ELSE clean_loop(s3, Tail(dirs))

\* run of clean.rs from the loop on (lines 32-85), for the entries dirs
\* that passed the path filter: the steps are the worktrees it considered,
\* `cleaned` the entries it counted, in cwd with or without a path file
clean_entries(s, dirs, cwd, pf) ==
    LET isClean(d) == s.wtBranch[d] # Trunk /\ ~has_diff_from(s, s.wtBranch[d])
        cleaned == SelectSeq(dirs, isClean)
        R(r) == [s |-> r.s, exit |-> r.exit, outcome |-> r.outcome,
                 steps |-> r.steps, cleaned |-> cleaned]
    IN IF dirs = <<>> THEN R(Result(s, 0, "no_worktrees", <<>>))
       ELSE IF cleaned = <<>> THEN R(Result(s, 0, "all_have_changes", dirs))
       ELSE R(Result(clean_loop(s, dirs), 0, "cleaned",
                     dirs \o Step(pf /\ Has(cleaned, cwd), "write_path_file")))

\* run of clean.rs in cwd
clean_run(s, cwd, pf) ==
    IF ~wt_dir_exists(s, clean_root)
    THEN Result(s, 0, "no_worktrees", <<>>)
    ELSE LET r == clean_entries(s, managed(s, clean_root), cwd, pf)
         IN Result(r.s, r.exit, r.outcome, r.steps)

\* rm.rs 24-25: wt_dir = workspaces_dir.join(repo_name)
rm_root == RepoName

\* run of rm.rs for `wt rm <target> [--force]` in cwd; target "." is the
\* current branch.  inside: cwd is inside the removed worktree.
rm_run(s, cwd, target, force, pf) ==
    LET branch == IF target = "." THEN current_branch(s, cwd) ELSE target
        inside == cwd = branch
        s1 == remove_worktree(s, branch)
        s2 == IF delete_branch_ok(s1, branch, force) THEN delete_branch(s1, branch)
              ELSE s1
        s3 == [s2 EXCEPT !.metas = @ \ {branch}]
        st == Step(force, "--force")
    IN IF ~wt_path_exists(s, rm_root, branch)
       THEN Result(s, 1, "WorktreeNotFound", st)
       ELSE IF ~remove_worktree_ok(s, branch, force)
       THEN Result(s, 1, "remove_failed", st \o <<"remove_worktree:fail">>)
       ELSE Result(s3, 0, "removed",
                   st \o <<"remove_worktree", "delete_branch", "remove_meta">>
                      \o Step(pf /\ inside, "write_path_file"))

\* move_worktree(old_path, new_path): `git worktree move`; the directory
\* keeps its checkout
move_worktree(s, old, new) ==
    [s EXCEPT !.worktrees = (@ \ {old}) \cup {new},
              !.wtBranch = [@ EXCEPT ![new] = s.wtBranch[old], ![old] = old],
              !.wtDirty = [@ EXCEPT ![new] = s.wtDirty[old], ![old] = FALSE],
              !.wtOp = [@ EXCEPT ![new] = s.wtOp[old], ![old] = "none"]]

\* rename_branch(old, new): `git branch -m` needs the old branch and refuses
\* a new name that is a branch already, and a branch that is being rebased
rename_branch_ok(s, old, new) ==
    /\ old \in s.branches
    /\ new \notin s.branches
    /\ ~(s.mainOp = "rebase" /\ s.mainOpBranch = old)

\* The branch under its new name, in every checkout that has it
rename_branch(s, old, new) ==
    [s EXCEPT !.branches = (@ \ {old}) \cup {new},
              !.br = [@ EXCEPT ![new] = s.br[old], ![old] = FreshBranch],
              !.wtBranch = [d \in Names |-> IF d \in s.worktrees /\ @[d] = old
                                            THEN new ELSE @[d]],
              !.mainHead = IF @ = old THEN new ELSE @,
              !.mainOpBranch = IF @ = old THEN new ELSE @]

\* run of move.rs for `wt mv <target> <new>` in cwd; target "." is the
\* current branch.  The metadata file is renamed to {new}.toml (.ok()).
move_run(s, cwd, target, new, pf) ==
    LET old == IF target = "." THEN current_branch(s, cwd) ELSE target
        inside == cwd = old
        s1 == move_worktree(s, old, new)
        s2 == rename_branch(s1, old, new)
        s3 == rename_meta(s2, old, new)
    IN IF ~wt_path_exists(s, WorkspaceId, old)
       THEN Result(s, 1, "WorktreeNotFound", <<>>)
       ELSE IF wt_path_exists(s, WorkspaceId, new)
       THEN Result(s, 1, "WorktreeExists", <<>>)
       ELSE IF ~rename_branch_ok(s1, old, new)
       THEN Result(s1, 1, "rename_branch_failed", <<"move_worktree">>)
       ELSE Result(s3, 0, "renamed",
                   <<"move_worktree", "rename_branch", "rename_meta">>
                      \o Step(pf /\ inside, "write_path_file"))

\* Nothing created yet, no command run
Quiet ==
    /\ branches = {}
    /\ br = [n \in Names |-> FreshBranch]
    /\ worktrees = {}
    /\ wtBranch = [n \in Names |-> n]
    /\ used = {}
    /\ wtDirty = [n \in Names |-> FALSE]
    /\ wtOp = [n \in Names |-> "none"]
    /\ metas = {}
    /\ tomls = [n \in Names |-> Absent]
    /\ mainHead = Trunk
    /\ mainOp = "none"
    /\ mainOpBranch = Absent
    /\ mainResolved = FALSE
    /\ mainStale = FALSE
    /\ mainEdit = "none"
    /\ mergeState = Absent
    /\ pathFile = Absent
    /\ snap = NoSnap
    /\ last = NoLast

Init == Quiet /\ probe = NoProbe


\* ------------------------------------------------------------------------
\* Commands (one invocation of the binary each)
\* ------------------------------------------------------------------------

\* No snap loop is running: the user is at the prompt of the shell, and the
\* report of the previous command has scrolled away.
AtPrompt == snap.mode = "off" /\ last = NoLast

\* A command took the repository to r.s and is recorded as d.
Finish(r, d) == Set(r.s) /\ last' = d

\* (strategy, the commit of a squash succeeds): only a squash commits by itself
MergeWays ==
    {<<"squash", TRUE>>, <<"squash", FALSE>>, <<"merge", TRUE>>, <<"rebase", TRUE>>}

\* (--skip-hooks, outcome of the pre-merge hooks)
PreWays == {<<FALSE, "ok">>, <<FALSE, "fail">>, <<TRUE, "ok">>}

\* wt new <b> [--snap CMD] [--path-file FILE] (pf: through the shell wrapper).
\* Through the wrapper the path (and the command) go to the hand-off file,
\* which the wrapper reads and removes at once, entering its loop; without
\* it `--snap` runs run_snap_mode in the process itself.  The report notes
\* whether a worktree was created under the name before.
New(b, snapCmd, pf) ==
    /\ AtPrompt
    /\ \E post_create \in HookOutcomes :
         LET r == new_run(Cur, b, post_create)
             d == Did("new", b, r)
         IN /\ Finish(r, [d EXCEPT !.steps =
                              Step(b \in used, "name_used_before")
                                \o Step(pf, "--path-file") \o @
                              \o Step(r.exit = 0 /\ pf, "write_path_file")])
            /\ snap' = IF r.exit = 0 /\ snapCmd
                       THEN [mode |-> IF pf THEN "shell" ELSE "direct",
                             pc |-> "agent", branch |-> b, status |-> 0]
                       ELSE snap
    /\ UNCHANGED <<pathFile, probe>>

\* wt merge [--strategy S] [--keep] [--skip-hooks] [--path-file FILE], run
\* in cwd; the report begins with the --keep and --path-file flags given
Merge(cwd) ==
    /\ AtPrompt
    /\ cwd \in {MainRepo} \cup worktrees
    /\ \E keep \in BOOLEAN, pf \in BOOLEAN :
         \E r \in { merge_run(Cur, cwd, w[1], keep, p[1], p[2], post, w[2], pf) :
                      w \in MergeWays, p \in PreWays, post \in HookOutcomes } :
           Finish(r, [Did("merge", current_branch(Cur, cwd), r)
                        EXCEPT !.steps = Step(keep, "--keep")
                                           \o Step(pf, "--path-file") \o @])
    /\ UNCHANGED <<pathFile, snap, probe>>

\* wt rm <target> [--force], run in cwd; the report names the target
Rm(cwd, target) ==
    /\ AtPrompt
    /\ cwd \in {MainRepo} \cup worktrees
    /\ target \in Names \/ (target = "." /\ current_branch(Cur, cwd) \in Names)
    /\ \E r \in { rm_run(Cur, cwd, target, force, pf) :
                    force \in BOOLEAN, pf \in BOOLEAN } :
         Finish(r, Did("rm", IF target = "." THEN current_branch(Cur, cwd)
                             ELSE target, r))
    /\ UNCHANGED <<pathFile, snap, probe>>

\* wt mv <target> <new>, run in cwd; the report names the old branch
Mv(cwd, target, new) ==
    /\ AtPrompt
    /\ cwd \in {MainRepo} \cup worktrees
    /\ target \in Names \/ (target = "." /\ current_branch(Cur, cwd) \in Names)
    /\ \E r \in { move_run(Cur, cwd, target, new, pf) : pf \in BOOLEAN } :
         Finish(r, Did("mv", IF target = "." THEN current_branch(Cur, cwd)
                             ELSE target, r))
    /\ UNCHANGED <<pathFile, snap, probe>>

\* wt ls, run anywhere in the repository
Ls ==
    /\ AtPrompt
    /\ Finish(ls_run(Cur), Did("ls", Absent, ls_run(Cur)))
    /\ UNCHANGED <<pathFile, snap, probe>>

\* wt clean, run in cwd
Clean(cwd) ==
    /\ AtPrompt
    /\ cwd \in {MainRepo} \cup worktrees
    /\ \E r \in { clean_run(Cur, cwd, pf) : pf \in BOOLEAN } :
         Finish(r, Did("clean", Absent, r))
    /\ UNCHANGED <<pathFile, snap, probe>>

\* wt merge --continue [--keep] [--path-file FILE]
MergeContinue ==
    /\ AtPrompt
    /\ \E keep \in BOOLEAN, pf \in BOOLEAN :
         \E r \in { merge_continue_run(Cur, keep, post, commitOk, pf) :
                      post \in HookOutcomes, commitOk \in BOOLEAN } :
           Finish(r, [Did("merge --continue", load_merge_state(Cur), r)
                        EXCEPT !.steps = Step(keep, "--keep")
                                           \o Step(pf, "--path-file") \o @])
    /\ UNCHANGED <<pathFile, snap, probe>>

\* wt merge --abort
MergeAbort ==
    /\ AtPrompt
    /\ LET r == merge_abort_run(Cur)
       IN Finish(r, Did("merge --abort", load_merge_state(Cur), r))
    /\ UNCHANGED <<pathFile, snap, probe>>

\* ------------------------------------------------------------------------
\* wt sync (src/cli/commands/sync.rs)
\* ------------------------------------------------------------------------

\* is_rebase_in_progress and is_merge_in_progress at a working directory:
\* they look into the git directory of the checkout the command runs in
rebase_in_progress_at(s, cwd) ==
    IF cwd = MainRepo THEN is_rebase_in_progress(s) ELSE s.wtOp[cwd] = "rebase"

merge_in_progress_at(s, cwd) ==
    IF cwd = MainRepo THEN is_merge_in_progress(s) ELSE s.wtOp[cwd] = "merge"

\* The checkout at cwd with its rebase or merge gone and a clean tree.
SettledAt(s, cwd) ==
    [s EXCEPT !.wtOp[cwd] = "none", !.wtDirty[cwd] = FALSE]

\* The branch at cwd once the conflicts with trunk were resolved and the
\* rebase or merge was finished.
ResolvedAt(s, cwd) ==
    [SettledAt(s, cwd) EXCEPT !.br[s.wtBranch[cwd]].clash = FALSE]

\* Variant: --abort as `wt merge --abort` does it, with the fallback to
\* reset --merge and the marker cleared
sync_abort_as_merge_abort(s, cwd) ==
    LET a == abort_merge(s)
    IN IF cwd # MainRepo \/ ~a.ok THEN Result(s, 1, "no_sync_in_progress", <<>>)
       ELSE Result(clear_merge_state(a.s), 0, "aborted", a.steps)

\* run with --abort (lines 42-55)
sync_abort(s, cwd) ==
    IF rebase_in_progress_at(s, cwd)
    THEN Result(IF cwd = MainRepo THEN rebase_abort(s) ELSE SettledAt(s, cwd),
                0, "aborted", <<"rebase_abort">>)
    ELSE IF merge_in_progress_at(s, cwd)
    THEN IF cwd = MainRepo
         THEN (IF merge_abort_ok(s)
               THEN Result(reset_merge(s), 0, "aborted", <<"merge_abort">>)
               ELSE Result(s, 1, "abort_failed", <<"merge_abort">>))
         ELSE Result(SettledAt(s, cwd), 0, "aborted", <<"merge_abort">>)
    ELSE Result(s, 1, "no_sync_in_progress", <<>>)

\* run with --continue (lines 57-70).  resolved: the conflicts are resolved
\* and staged, so that `git rebase --continue` or `git commit --no-edit`
\* goes through.
sync_continue(s, cwd, resolved) ==
    LET done == IF cwd = MainRepo THEN s.mainResolved ELSE resolved
    IN IF rebase_in_progress_at(s, cwd)
       THEN IF ~done THEN Result(s, 1, "continue_failed", <<"rebase_continue">>)
            ELSE Result(IF cwd = MainRepo
                        THEN [Settled(s) EXCEPT !.br[s.mainOpBranch].clash = FALSE]
                        ELSE ResolvedAt(s, cwd),
                        0, "continued", <<"rebase_continue">>)
       ELSE IF merge_in_progress_at(s, cwd)
       THEN IF ~done THEN Result(s, 1, "continue_failed", <<"merge_continue">>)
            ELSE Result(IF cwd = MainRepo THEN Committed(s) ELSE ResolvedAt(s, cwd),
                        0, "continued", <<"merge_continue">>)
       ELSE Result(s, 1, "no_sync_in_progress", <<>>)

\* run without --abort and --continue (lines 72-97): rebase onto trunk or
\* merge of trunk, in the checkout at cwd.  git refuses both while an
\* operation is in progress there, the rebase with uncommitted changes,
\* and the merge when they are in its way (taken to be so here).
sync_plain(s, cwd, strategy) ==
    LET current == current_branch(s, cwd)
        busy == IF cwd = MainRepo THEN s.mainOp # "none" ELSE s.wtOp[cwd] # "none"
        step == IF strategy = "rebase" THEN <<"git_rebase">> ELSE <<"git_merge">>
    IN IF current = Trunk THEN Result(s, 1, "already_on_trunk", <<>>)
       ELSE IF busy \/ has_uncommitted_changes(s, cwd)
       THEN Result(s, 1, "git_refused", step)
       ELSE IF ~s.br[current].clash THEN Result(s, 0, "synced", step)
       ELSE IF cwd = MainRepo
       THEN Result(Stopped(s, strategy, IF strategy = "rebase" THEN current ELSE Trunk,
                           FALSE),
                   1, "conflict", step)
       ELSE Result([s EXCEPT !.wtOp[cwd] = strategy, !.wtDirty[cwd] = TRUE],
                   1, "conflict", step)

sync_run(s, cwd, mode, strategy, resolved) ==
    IF mode = "--abort" THEN sync_abort(s, cwd)
    ELSE IF mode = "--continue" THEN sync_continue(s, cwd, resolved)
    ELSE sync_plain(s, cwd, strategy)

SyncModes == {"--abort", "--continue", "plain"}

SyncStrategies == {"rebase", "merge"}

\* wt sync [--strategy S] [--continue] [--abort], run in cwd.  The report
\* begins with the directory, the mode and the strategy of the run.
Sync(cwd, mode, strategy) ==
    /\ AtPrompt
    /\ cwd \in {MainRepo} \cup worktrees
    /\ \E resolved \in BOOLEAN :
         LET r == sync_run(Cur, cwd, mode, strategy, resolved)
             d == Did("sync", current_branch(Cur, cwd), r)
         IN Finish(r, [d EXCEPT !.steps = <<cwd, mode, strategy>> \o @])
    /\ UNCHANGED <<pathFile, snap, probe>>

\* ------------------------------------------------------------------------
\* The snap loop: shell wrapper (src/shell/mod.rs) and run_snap_mode
\* ------------------------------------------------------------------------

\* The external command returns with an exit status.
AgentExit(status) ==
    /\ snap.pc = "agent"
    /\ last = NoLast
    /\ snap' = [snap EXCEPT !.pc = "exited", !.status = status]
    /\ UNCHANGED <<branches, br, worktrees, wtBranch, used, wtDirty, wtOp, metas, tomls, mainHead, mainOp,
                   mainOpBranch, mainResolved, mainStale, mainEdit, mergeState,
                   pathFile, last, probe>>

\* Variant: the wrapper runs snap-continue whatever the agent's status
wrapper_ignoring_status(s, b, status, merge_answer, exit_answer, strategy, pre, post, commitOk) ==
    LET r == snap_continue_run(s, b, merge_answer, exit_answer, strategy,
                               pre, post, commitOk)
    IN [s |-> r.s, exit |-> r.exit, outcome |-> r.outcome, steps |-> r.steps,
        file |-> r.file, cmd |-> "snap-continue", pc |-> "after"]

\* What the wrapper does when the agent returned (BASH_ZSH_WRAPPER lines
\* 171-177): a non-zero status ends the loop, otherwise snap-continue runs.
wrapper_after_agent(s, b, status, merge_answer, exit_answer, strategy, pre, post, commitOk) ==
    IF status # 0
    THEN [s |-> s, exit |-> status, outcome |-> "agent_abnormal", steps |-> <<>>,
          file |-> Absent, cmd |-> "wrapper", pc |-> "idle"]
    ELSE LET r == snap_continue_run(s, b, merge_answer, exit_answer, strategy,
                                    pre, post, commitOk)
         IN [s |-> r.s, exit |-> r.exit, outcome |-> r.outcome, steps |-> r.steps,
             file |-> r.file, cmd |-> "snap-continue", pc |-> "after"]

ShellAfterAgent ==
    /\ snap.mode = "shell"
    /\ snap.pc = "exited"
    /\ \E r \in { wrapper_after_agent(Cur, snap.branch, snap.status, ma, ea, w[1],
                                      pre, post, w[2]) :
                    ma \in MergeAnswers, ea \in ExitAnswers, w \in MergeWays,
                    pre \in HookOutcomes, post \in HookOutcomes } :
         /\ Finish(r, Did(r.cmd, snap.branch, r))
         /\ pathFile' = r.file
         /\ snap' = IF r.pc = "idle" THEN NoSnap
                    ELSE [snap EXCEPT !.pc = "after", !.status = r.exit]
    /\ UNCHANGED <<probe>>

\* Variant: the wrapper leaves the loop only on 0 and 3
wrapper_reopen_on_error(continue_status, file) ==
    IF continue_status = 0 /\ file # Absent
    THEN [pc |-> "idle", cd |-> file[1], file |-> Absent]
    ELSE IF continue_status = 3 THEN [pc |-> "idle", cd |-> Absent, file |-> Absent]
    ELSE [pc |-> "agent", cd |-> Absent, file |-> file]

\* What the wrapper does with snap-continue's exit code (lines 179-188):
\* pc "agent" runs the agent again, "idle" leaves the loop; cd is the
\* directory the shell changes to, file the hand-off file afterwards.
wrapper_after_continue(continue_status, file) ==
    IF continue_status = 0 /\ file # Absent
    THEN [pc |-> "idle", cd |-> file[1], file |-> Absent]
    ELSE IF continue_status = 3 THEN [pc |-> "idle", cd |-> Absent, file |-> Absent]
    ELSE IF continue_status # 2 THEN [pc |-> "idle", cd |-> Absent, file |-> Absent]
    ELSE [pc |-> "agent", cd |-> Absent, file |-> file]

\* The wrapper's branch on $continue_status.  Its report: outcome "left" or
\* "reopen", the steps name the status it saw and the directory change; the
\* function itself ends with the status of `break`.
ShellAfterContinue ==
    /\ snap.mode = "shell"
    /\ snap.pc = "after"
    /\ last = NoLast
    /\ LET w == wrapper_after_continue(snap.status, pathFile)
       IN /\ snap' = IF w.pc = "idle" THEN NoSnap
                     ELSE [snap EXCEPT !.pc = "agent", !.status = 0]
          /\ pathFile' = w.file
          /\ last' = [cmd |-> "wrapper-loop", branch |-> snap.branch, exit |-> 0,
                      outcome |-> IF w.pc = "idle" THEN "left" ELSE "reopen",
                      steps |-> <<"continue_status", ToString(snap.status)>>
                                   \o IF w.cd = Absent THEN <<>>
                                      ELSE <<"cd", w.cd>>]
    /\ UNCHANGED <<branches, br, worktrees, wtBranch, used, wtDirty, wtOp, metas, tomls, mainHead, mainOp,
                   mainOpBranch, mainResolved, mainStale, mainEdit, mergeState,
                   probe>>

\* The rest of an iteration of run_snap_mode once the agent returned.
DirectAfterAgent ==
    /\ snap.mode = "direct"
    /\ snap.pc = "exited"
    /\ \E r \in { run_snap_mode(Cur, snap.branch, snap.status, ea, w[1], pre, post,
                                w[2]) :
                    ea \in ExitAnswers, w \in MergeWays, pre \in HookOutcomes,
                    post \in HookOutcomes } :
         /\ Finish(r, Did("run_snap_mode", snap.branch, r))
         /\ snap' = IF r.again THEN [snap EXCEPT !.pc = "agent", !.status = 0]
                    ELSE NoSnap
    /\ UNCHANGED <<pathFile, probe>>

\* ------------------------------------------------------------------------
\* The user and the agent working in the checkouts
\* ------------------------------------------------------------------------

\* `last` is the report of the command that has just finished; it is read
\* and gone before anything else happens.
ReportRead ==
    /\ last # NoLast
    /\ last' = NoLast
    /\ UNCHANGED <<branches, br, worktrees, wtBranch, used, wtDirty, wtOp, metas, tomls, mainHead, mainOp,
                   mainOpBranch, mainResolved, mainStale, mainEdit, mergeState,
                   pathFile, snap, probe>>

\* The user works in the checkouts between commands; while a snap loop holds
\* the terminal, the agent works in the loop's worktree.
UserWorks == snap.pc = "idle" /\ last = NoLast /\ UNCHANGED last

WorksIn(b) ==
    /\ snap.pc = "idle" \/ (snap.pc = "agent" /\ snap.branch = b)
    /\ last = NoLast
    /\ UNCHANGED last

WorktreeEdit(b) ==
    /\ WorksIn(b)
    /\ b \in worktrees
    /\ ~wtDirty[b]
    /\ wtDirty' = [wtDirty EXCEPT ![b] = TRUE]
    /\ UNCHANGED <<branches, br, worktrees, wtBranch, used, wtOp, metas, tomls, mainHead, mainOp, mainOpBranch,
                   mainResolved, mainStale, mainEdit, mergeState, pathFile, snap, probe>>

WorktreeDiscard(b) ==
    /\ WorksIn(b)
    /\ b \in worktrees
    /\ wtDirty[b]
    /\ wtDirty' = [wtDirty EXCEPT ![b] = FALSE]
    /\ UNCHANGED <<branches, br, worktrees, wtBranch, used, wtOp, metas, tomls, mainHead, mainOp, mainOpBranch,
                   mainResolved, mainStale, mainEdit, mergeState, pathFile, snap, probe>>

\* git commit in the worktree directory b; clashing: the commit touches what trunk
\* changed too
WorktreeCommit(b, clashing) ==
    /\ WorksIn(b)
    /\ b \in worktrees
    /\ wtDirty[b]
    /\ wtDirty' = [wtDirty EXCEPT ![b] = FALSE]
    /\ br' = [br EXCEPT ![wtBranch[b]] =
                               [ahead |-> IF @.ahead < MaxAhead THEN @.ahead + 1
                                          ELSE MaxAhead,
                                clash |-> @.clash \/ clashing,
                                integrated |-> FALSE]]
    /\ mainStale' = (mainStale \/ mainOpBranch = wtBranch[b])
    /\ UNCHANGED <<branches, worktrees, wtBranch, used, wtOp, metas, tomls, mainHead, mainOp, mainOpBranch,
                   mainResolved, mainEdit, mergeState, pathFile, snap, probe>>

\* An edit in the main repository: of a file the stopped merge has staged
\* ("staged"), or of any other file ("other").
MainEdit(kind) ==
    /\ UserWorks
    /\ mainEdit = "none"
    /\ kind = "staged" => mainOp \in {"merge", "squash"}
    /\ mainEdit' = kind
    /\ UNCHANGED <<branches, br, worktrees, wtBranch, used, wtDirty, wtOp, metas, tomls, mainHead, mainOp,
                   mainOpBranch, mainResolved, mainStale, mergeState, pathFile,
                   snap, probe>>

MainDiscard ==
    /\ UserWorks
    /\ mainEdit # "none"
    /\ mainEdit' = "none"
    /\ UNCHANGED <<branches, br, worktrees, wtBranch, used, wtDirty, wtOp, metas, tomls, mainHead, mainOp,
                   mainOpBranch, mainResolved, mainStale, mergeState, pathFile,
                   snap, probe>>

\* The user resolves the conflicts in the main repository and stages them.
MainResolve ==
    /\ UserWorks
    /\ mainOp # "none"
    /\ ~mainResolved
    /\ mainResolved' = TRUE
    /\ UNCHANGED <<branches, br, worktrees, wtBranch, used, wtDirty, wtOp, metas, tomls, mainHead, mainOp,
                   mainOpBranch, mainStale, mainEdit, mergeState, pathFile, snap, probe>>

\* git commit in the main repository while it has a feature branch checked out
MainCommit(clashing) ==
    /\ UserWorks
    /\ mainOp = "none"
    /\ mainHead \in Names
    /\ mainEdit = "other"
    /\ mainEdit' = "none"
    /\ br' = [br EXCEPT ![mainHead] =
                 [ahead |-> IF @.ahead < MaxAhead THEN @.ahead + 1 ELSE MaxAhead,
                  clash |-> @.clash \/ clashing,
                  integrated |-> FALSE]]
    /\ UNCHANGED <<branches, worktrees, wtBranch, used, wtDirty, wtOp, metas, tomls, mainHead, mainOp,
                   mainOpBranch, mainResolved, mainStale, mergeState, pathFile,
                   snap, probe>>

\* git checkout <b> in the main repository (git checkout -b <b> for a branch
\* that does not exist yet)
MainCheckout(b) ==
    /\ UserWorks
    /\ b # mainHead
    /\ IF b \in Names \ branches THEN mainOp = "none" ELSE checkout_ok(Cur, b)
    /\ mainHead' = b
    /\ branches' = IF b = Trunk THEN branches ELSE branches \cup {b}
    /\ br' = IF b \in Names \ branches THEN [br EXCEPT ![b] = FreshBranch] ELSE br
    /\ UNCHANGED <<worktrees, wtBranch, used, wtDirty, wtOp, metas, tomls, mainOp, mainOpBranch, mainResolved,
                   mainStale, mainEdit, mergeState, pathFile, snap, probe>>

Next ==
    \/ ReportRead
    \/ \E b \in Names, snapCmd \in BOOLEAN, pf \in BOOLEAN : New(b, snapCmd, pf)
    \/ \E cwd \in {MainRepo} \cup Names : Merge(cwd)
    \/ MergeContinue
    \/ MergeAbort
    \/ \E status \in {0, 1} : AgentExit(status)
    \/ ShellAfterAgent
    \/ ShellAfterContinue
    \/ DirectAfterAgent
    \/ \E b \in Names : WorktreeEdit(b)
    \/ \E b \in Names : WorktreeDiscard(b)
    \/ \E b \in Names, clashing \in BOOLEAN : WorktreeCommit(b, clashing)
    \/ \E kind \in {"other", "staged"} : MainEdit(kind)
    \/ MainDiscard
    \/ MainResolve
    \/ \E clashing \in BOOLEAN : MainCommit(clashing)
    \/ \E b \in Names \cup {Trunk} : MainCheckout(b)

Spec == Init /\ [][Next]_vars

\* ------------------------------------------------------------------------
\* The worktree store: new, ls, rm, mv, clean and merge, with the user
\* working in the checkouts between the commands
\* ------------------------------------------------------------------------

NextStore ==
    \/ ReportRead
    \/ \E b \in Names, pf \in BOOLEAN : New(b, FALSE, pf)
    \/ Ls
    \/ \E cwd \in {MainRepo} \cup Names, target \in Names \cup {"."} : Rm(cwd, target)
    \/ \E cwd \in {MainRepo} \cup Names, target \in Names \cup {"."}, new \in Names :
          Mv(cwd, target, new)
    \/ \E cwd \in {MainRepo} \cup Names : Clean(cwd)
    \/ \E cwd \in {MainRepo} \cup Names : Merge(cwd)
    \/ \E b \in Names : WorktreeEdit(b)
    \/ \E b \in Names : WorktreeDiscard(b)
    \/ \E b \in Names, clashing \in BOOLEAN : WorktreeCommit(b, clashing)
    \/ \E b \in Names \cup {Trunk} : MainCheckout(b)

SpecStore == Init /\ [][NextStore]_vars

\* ------------------------------------------------------------------------
\* The loop of wt clean over worktrees that pass its path filter
\* ------------------------------------------------------------------------

\* The loop and the end of clean.rs run (32-85) in cwd, entered with the
\* worktrees that `wt ls` shows as the entries under wt_dir.  The report
\* names cwd, then a given path file, then the entries counted as cleaned,
\* then the steps of the run.
CleanListed(cwd) ==
    /\ AtPrompt
    /\ cwd \in {MainRepo} \cup worktrees
    /\ \E pf \in BOOLEAN :
         LET r == clean_entries(Cur, managed(Cur, ls_root), cwd, pf)
         IN Finish(r, [Did("clean", cwd, r)
                         EXCEPT !.steps = Step(pf, "--path-file") \o <<"counted">>
                                            \o r.cleaned \o <<"steps">> \o @])
    /\ UNCHANGED <<pathFile, snap, probe>>

NextClean ==
    \/ ReportRead
    \/ \E b \in Names, pf \in BOOLEAN : New(b, FALSE, pf)
    \/ \E cwd \in {MainRepo} \cup Names : CleanListed(cwd)
    \/ \E b \in Names : WorktreeEdit(b)
    \/ \E b \in Names : WorktreeDiscard(b)
    \/ \E b \in Names, clashing \in BOOLEAN : WorktreeCommit(b, clashing)
    \/ \E b \in Names \cup {Trunk} : MainCheckout(b)

SpecClean == Init /\ [][NextClean]_vars

\* ------------------------------------------------------------------------
\* wt new with its failures
\* ------------------------------------------------------------------------

\* wt new <b> [--base REF] [--path-file FILE]; the report begins with the
\* inputs that were bad
NewFrom(b, pf) ==
    /\ AtPrompt
    /\ \E base_ok \in BOOLEAN, save_ok \in BOOLEAN, post_create \in HookOutcomes :
         LET r == new_run_from(Cur, b, base_ok, save_ok, post_create)
         IN Finish(r, [Did("new", b, r) EXCEPT !.steps =
                         Step(~base_ok, "invalid_base")
                           \o Step(~save_ok, "unwritable_meta") \o @
                           \o Step(r.exit = 0 /\ pf, "write_path_file")])
    /\ UNCHANGED <<pathFile, snap, probe>>

NextCreate ==
    \/ ReportRead
    \/ \E b \in Names, pf \in BOOLEAN : NewFrom(b, pf)
    \/ \E cwd \in {MainRepo} \cup Names : Merge(cwd)
    \/ \E b \in Names : WorktreeEdit(b)
    \/ \E b \in Names, clashing \in BOOLEAN : WorktreeCommit(b, clashing)
    \/ \E b \in Names \cup {Trunk} : MainCheckout(b)

SpecCreate == Init /\ [][NextCreate]_vars

\* ------------------------------------------------------------------------
\* Syncing with trunk: new, merge and sync, with the user working in the
\* checkouts between the commands
\* ------------------------------------------------------------------------

NextSync ==
    \/ ReportRead
    \/ \E b \in Names, pf \in BOOLEAN : New(b, FALSE, pf)
    \/ \E cwd \in {MainRepo} \cup Names : Merge(cwd)
    \/ \E cwd \in {MainRepo} \cup Names, mode \in SyncModes,
          strategy \in SyncStrategies : Sync(cwd, mode, strategy)
    \/ \E b \in Names : WorktreeEdit(b)
    \/ \E b \in Names, clashing \in BOOLEAN : WorktreeCommit(b, clashing)
    \/ MainResolve
    \/ \E b \in Names \cup {Trunk} : MainCheckout(b)

SpecSync == Init /\ [][NextSync]_vars

\* ------------------------------------------------------------------------
\* The snap decision table, called on every input
\* ------------------------------------------------------------------------

SnapActions == {"CleanupNoChanges", "MergeAndCleanup", "Reopen", "ExitPreserve"}

Pending == "<pending>"

\* Calls of determine_action_with_choice, and of determine_action with the
\* answers the two prompts would give
DecideCalls ==
    [fn : {"determine_action_with_choice"}, has_uncommitted : BOOLEAN,
     has_commits_ahead : BOOLEAN, exit : ExitChoices, merge : MergeChoices,
     action : {Pending}]
    \cup
    [fn : {"determine_action"}, has_uncommitted : BOOLEAN,
     has_commits_ahead : BOOLEAN, exit : ExitAnswers, merge : MergeAnswers,
     action : {Pending}]

InitDecide == Quiet /\ probe \in DecideCalls

Returns(action) ==
    /\ probe.action = Pending
    /\ probe' = [probe EXCEPT !.action = action]
    /\ UNCHANGED <<branches, br, worktrees, wtBranch, used, wtDirty, wtOp, metas, tomls, mainHead, mainOp,
                   mainOpBranch, mainResolved, mainStale, mainEdit, mergeState,
                   pathFile, snap, last>>

DecideWithChoice ==
    /\ probe.fn = "determine_action_with_choice"
    /\ Returns(determine_action_with_choice(probe.has_uncommitted,
                   probe.has_commits_ahead, probe.exit, probe.merge))

DecideAtPrompt ==
    /\ probe.fn = "determine_action"
    /\ Returns(determine_action(probe.has_uncommitted, probe.has_commits_ahead,
                                 probe.merge, probe.exit))

NextDecide == DecideWithChoice \/ DecideAtPrompt

SpecDecide == InitDecide /\ [][NextDecide]_vars

\* ------------------------------------------------------------------------
\* The hand-off file: written by the tool, read by the shell wrapper
\* (src/cli/mod.rs, src/shell/mod.rs)
\* ------------------------------------------------------------------------

\* Longest path and longest snap command, in characters
MaxPath == 2

MaxCmd == 3

NL == "\n"

\* A path has no line break; a command is any text
PathChars == {"w", "t"}

CmdChars == PathChars \cup {NL}

Texts(chars, n) == UNION { [1..k -> chars] : k \in 0..n }

\* lines.join("\n")
RECURSIVE join(_)
join(lines) ==
    IF lines = <<>> THEN <<>>
    ELSE IF Len(lines) = 1 THEN lines[1]
    ELSE lines[1] \o <<NL>> \o join(Tail(lines))

\* write_path_file_lines(path_file, lines): the file's content
write_path_file_lines(lines) == join(lines)

\* write_path_file(path_file, path): the file's content
write_path_file(path) == path

\* Positions of the line breaks of a text
Breaks(text) == { i \in 1..Len(text) : text[i] = NL }

Max(S) == CHOOSE x \in S : \A y \in S : y <= x

Min(S) == CHOOSE x \in S : \A y \in S : x <= y

\* "$(head -n1 FILE)": the first line, without its line break
head_n1(text) ==
    IF Breaks(text) = {} THEN text ELSE SubSeq(text, 1, Min(Breaks(text)) - 1)

\* "$(tail -n1 FILE)": the last line; a line break at the end of the file
\* ends the last line and belongs to it
tail_n1(text) ==
    LET body == IF text # <<>> /\ text[Len(text)] = NL
                THEN SubSeq(text, 1, Len(text) - 1) ELSE text
    IN IF Breaks(body) = {} THEN body
       ELSE SubSeq(body, Max(Breaks(body)) + 1, Len(body))

\* The wrapper's reading (shell/mod.rs 160-163): target_path, snap_cmd, and
\* the guard that empties a snap_cmd equal to target_path
wrapper_read(text) ==
    LET target_path == head_n1(text)
        snap_cmd == tail_n1(text)
    IN <<target_path, IF target_path = snap_cmd THEN <<>> ELSE snap_cmd>>

\* Calls of `wt new` through the wrapper: with --snap CMD the two-line
\* message, without it the one-line message
HandoffCalls ==
    [fn : {"write_path_file_lines"}, path : Texts(PathChars, MaxPath) \ {<<>>},
     cmd : Texts(CmdChars, MaxCmd), pc : {"call"}, file : {<<>>},
     read : {<< <<>>, <<>> >>}]
    \cup
    [fn : {"write_path_file"}, path : Texts(PathChars, MaxPath) \ {<<>>},
     cmd : {<<>>}, pc : {"call"}, file : {<<>>}, read : {<< <<>>, <<>> >>}]

InitHandoff == Quiet /\ probe \in HandoffCalls

HandoffStep(pc, file, read) ==
    /\ probe' = [probe EXCEPT !.pc = pc, !.file = file, !.read = read]
    /\ UNCHANGED <<branches, br, worktrees, wtBranch, used, wtDirty, wtOp, metas, tomls, mainHead, mainOp,
                   mainOpBranch, mainResolved, mainStale, mainEdit, mergeState,
                   pathFile, snap, last>>

WriteTwoLines ==
    /\ probe.fn = "write_path_file_lines" /\ probe.pc = "call"
    /\ HandoffStep("written", write_path_file_lines(<<probe.path, probe.cmd>>),
                   probe.read)

WriteOneLine ==
    /\ probe.fn = "write_path_file" /\ probe.pc = "call"
    /\ HandoffStep("written", write_path_file(probe.path), probe.read)

WrapperReads ==
    /\ probe.pc = "written"
    /\ HandoffStep("read", <<>>, wrapper_read(probe.file))

NextHandoff == WriteTwoLines \/ WriteOneLine \/ WrapperReads

SpecHandoff == InitHandoff /\ [][NextHandoff]_vars

\* ------------------------------------------------------------------------
\* The MergeState file .git/WT_MERGE_BRANCH as text
\* (src/cli/commands/merge.rs 18-43)
\* ------------------------------------------------------------------------

\* Longest branch text saved
MaxBranch == 3

Space == " "

\* White space as str::trim sees it
White == {Space, NL}

BranchChars == {"m"} \cup White

NoFile == [exists |-> FALSE, content |-> <<>>]

\* Variant: the text as it is in the file
untrimmed(text) == text

\* str::trim: the text from its first to its last character that is not
\* white space
trim(text) ==
    LET solid == { i \in 1..Len(text) : text[i] \notin White }
    IN IF solid = {} THEN <<>> ELSE SubSeq(text, Min(solid), Max(solid))

\* save_merge_state: std::fs::write(path, branch)
write_merge_state(file, branch) == [exists |-> TRUE, content |-> branch]

\* load_merge_state: Ok(Some(trimmed content)), or Ok(None) when the file
\* is not found
read_merge_state(file) ==
    IF file.exists THEN [res |-> "Some", value |-> trim(file.content)]
    ELSE [res |-> "None", value |-> <<>>]

\* clear_merge_state: remove_file(path).ok()
remove_merge_state(file) == NoFile

NotLoaded == [res |-> "<pending>", value |-> <<>>]

\* A branch text, and the file before any call
MergeStateCalls ==
    [fn : {"merge_state"}, branch : Texts(BranchChars, MaxBranch),
     op : {"none"}, before : {NoFile}, file : {NoFile}, loaded : {NotLoaded}]

InitMergeState == Quiet /\ probe \in MergeStateCalls

MergeStateStep(op, file, loaded) ==
    /\ probe.fn = "merge_state"
    /\ probe' = [probe EXCEPT !.op = op, !.before = probe.file, !.file = file,
                              !.loaded = loaded]
    /\ UNCHANGED <<branches, br, worktrees, wtBranch, used, wtDirty, wtOp, metas, tomls, mainHead, mainOp,
                   mainOpBranch, mainResolved, mainStale, mainEdit, mergeState,
                   pathFile, snap, last>>

SaveMergeState ==
    MergeStateStep("save", write_merge_state(probe.file, probe.branch), NotLoaded)

LoadMergeState ==
    MergeStateStep("load", probe.file, read_merge_state(probe.file))

ClearMergeState ==
    MergeStateStep("clear", remove_merge_state(probe.file), NotLoaded)

NextMergeState == SaveMergeState \/ LoadMergeState \/ ClearMergeState

SpecMergeState == InitMergeState /\ [][NextMergeState]_vars

\* ------------------------------------------------------------------------
\* The merge target of a worktree: the trunk of the configuration, of the
\* repository and of the metadata (new.rs 36-71, merge.rs 128-137,
\* snap_continue.rs 64-91)
\* ------------------------------------------------------------------------

\* Values of `trunk` in the configuration (Absent: not set)
ConfigTrunks == {Absent, "main", "develop"}

\* Which of refs/heads/main and refs/heads/master exist
HeadSets == SUBSET {"main", "master"}

\* refs/remotes/origin/HEAD, or Absent
OriginHeads == {Absent, "develop"}

\* detect_trunk (git/mod.rs 154-174): main > master > origin's default > "main"
detect_trunk(heads, origin) ==
    IF "main" \in heads THEN "main"
    ELSE IF "master" \in heads THEN "master"
    ELSE IF origin # Absent THEN origin
    ELSE "main"

\* config.trunk.clone().unwrap_or_else(|| detect_trunk()...)
configured_trunk(config, heads, origin) ==
    IF config # Absent THEN config ELSE detect_trunk(heads, origin)

\* merge.rs 130-133: --into, else the configuration, else detection
merge_target(into, config, heads, origin) ==
    IF into # Absent THEN into ELSE configured_trunk(config, heads, origin)

\* gather_context (snap_continue.rs 71-78): the trunk of the metadata, else
\* detection
snap_target(meta, heads, origin) ==
    IF meta # Absent THEN meta ELSE detect_trunk(heads, origin)

\* A repository, its configuration, and a worktree whose metadata file (if
\* any) records the trunk; cmd and target are the last command run in the
\* worktree and the branch it merged into
TrunkCalls ==
    [fn : {"trunk"}, config : ConfigTrunks, heads : HeadSets, origin : OriginHeads,
     meta : {Absent}, cmd : {"none"}, into : {Absent}, target : {Absent}]

InitTrunk == Quiet /\ probe \in TrunkCalls

TrunkStep(p) ==
    /\ probe.fn = "trunk"
    /\ probe' = p
    /\ UNCHANGED <<branches, br, worktrees, wtBranch, used, wtDirty, wtOp, metas, tomls, mainHead,
                   mainOp, mainOpBranch, mainResolved, mainStale, mainEdit,
                   mergeState, pathFile, snap, last>>

\* wt new: WorktreeMeta::new(base_commit, trunk) is saved; with --snap and no
\* hand-off file run_snap_mode merges into the same trunk
TrunkNew(snapCmd) ==
    /\ probe.meta = Absent
    /\ LET trunk == configured_trunk(probe.config, probe.heads, probe.origin)
       IN TrunkStep([probe EXCEPT !.meta = trunk,
                                  !.cmd = IF snapCmd THEN "run_snap_mode" ELSE "new",
                                  !.into = Absent,
                                  !.target = IF snapCmd THEN trunk ELSE Absent])

\* The user edits `trunk` in the configuration
TrunkConfigured(config) ==
    /\ config # probe.config
    /\ TrunkStep([probe EXCEPT !.config = config, !.cmd = "none",
                               !.into = Absent, !.target = Absent])

\* Branches main and master appear or go, origin's default changes
TrunkDetectedAnew(heads, origin) ==
    /\ <<heads, origin>> # <<probe.heads, probe.origin>>
    /\ TrunkStep([probe EXCEPT !.heads = heads, !.origin = origin, !.cmd = "none",
                               !.into = Absent, !.target = Absent])

\* wt merge [--into B] in the worktree
TrunkMerge(into) ==
    /\ probe.fn = "trunk"
    /\ TrunkStep([probe EXCEPT !.cmd = "merge", !.into = into,
                               !.target = merge_target(into, probe.config,
                                                       probe.heads, probe.origin)])

\* wt snap-continue in the worktree
TrunkSnapContinue ==
    /\ probe.fn = "trunk"
    /\ TrunkStep([probe EXCEPT !.cmd = "snap-continue", !.into = Absent,
                               !.target = snap_target(probe.meta, probe.heads,
                                                      probe.origin)])

NextTrunk ==
    \/ \E snapCmd \in BOOLEAN : TrunkNew(snapCmd)
    \/ \E config \in ConfigTrunks : TrunkConfigured(config)
    \/ \E heads \in HeadSets, origin \in OriginHeads : TrunkDetectedAnew(heads, origin)
    \/ \E into \in {Absent, "release"} : TrunkMerge(into)
    \/ TrunkSnapContinue

SpecTrunk == InitTrunk /\ [][NextTrunk]_vars

\* ------------------------------------------------------------------------
\* The two prompts and the two decision functions (src/prompt/mod.rs,
\* src/cli/commands/snap_continue.rs)
\* ------------------------------------------------------------------------

\* Longest line typed at a prompt, in characters
MaxInput == 3

InputChars == {"m", "M", "q", "r", Space, NL}

\* str::to_lowercase on the letters of the alphabet
lower(c) == IF c = "M" THEN "m" ELSE c

to_lowercase(text) == [i \in 1..Len(text) |-> lower(text[i])]

\* parse_snap_choice: Some(Reopen) for "r", Some(Exit) for "q", else None
parse_snap_choice(input) ==
    LET word == to_lowercase(trim(input))
    IN IF word = <<"r">> THEN "Reopen"
       ELSE IF word = <<"q">> THEN "Exit"
       ELSE "None"

\* parse_snap_merge_choice: Some(Merge) for "m", Some(Exit) for "q", else None
parse_snap_merge_choice(input) ==
    LET word == to_lowercase(trim(input))
    IN IF word = <<"m">> THEN "Merge"
       ELSE IF word = <<"q">> THEN "Exit"
       ELSE "None"

\* snap_merge_prompt: Err(Io) when the line cannot be read, Err(Cancelled)
\* when it does not parse, else Ok(choice)
snap_merge_prompt(read_ok, input) ==
    IF ~read_ok THEN "err"
    ELSE LET choice == parse_snap_merge_choice(input)
         IN IF choice = "Merge" THEN "merge"
            ELSE IF choice = "Exit" THEN "exit"
            ELSE "err"

\* snap_exit_prompt, likewise
snap_exit_prompt(read_ok, input) ==
    IF ~read_ok THEN "err"
    ELSE LET choice == parse_snap_choice(input)
         IN IF choice = "Reopen" THEN "reopen"
            ELSE IF choice = "Exit" THEN "exit"
            ELSE "err"

\* The Option a test passes for the Result a prompt gave: Ok(c) is Some(c),
\* Err(_) is None
ChoiceOf(answer) ==
    CASE answer = "merge" -> "Merge"
      [] answer = "reopen" -> "Reopen"
      [] answer = "exit" -> "Exit"
      [] answer = "err" -> "None"

\* A context, what stdin gives to either prompt, and no result yet
ChoiceCalls ==
    [fn : {"determine"}, has_uncommitted : BOOLEAN, has_commits_ahead : BOOLEAN,
     read_ok : BOOLEAN, input : Texts(InputChars, MaxInput),
     production : {Pending}, prompt_free : {Pending}]

InitChoice == Quiet /\ probe \in ChoiceCalls

\* determine_action with the prompts reading the input, and
\* determine_action_with_choice with the choices that stand for the answers
DetermineBoth ==
    /\ probe.fn = "determine"
    /\ probe.production = Pending
    /\ LET merge_answer == snap_merge_prompt(probe.read_ok, probe.input)
           exit_answer == snap_exit_prompt(probe.read_ok, probe.input)
       IN probe' = [probe EXCEPT
                      !.production =
                          determine_action(probe.has_uncommitted,
                              probe.has_commits_ahead, merge_answer, exit_answer),
                      !.prompt_free =
                          determine_action_with_choice(probe.has_uncommitted,
                              probe.has_commits_ahead, ChoiceOf(exit_answer),
                              ChoiceOf(merge_answer))]
    /\ UNCHANGED <<branches, br, worktrees, wtBranch, used, wtDirty, wtOp, metas, tomls, mainHead, mainOp,
                   mainOpBranch, mainResolved, mainStale, mainEdit, mergeState,
                   pathFile, snap, last>>

NextChoice == DetermineBoth

SpecChoice == InitChoice /\ [][NextChoice]_vars

\* ------------------------------------------------------------------------
\* main and the update-check thread (src/main.rs, src/update/mod.rs)
\* ------------------------------------------------------------------------

\* How the command of an invocation ends: cli.run() returns Ok or Err, the
\* command calls std::process::exit itself (snap-continue: 0, 2, 3), or
\* Cli::parse() ends the process on a usage error
CommandEnds == {"Ok", "Err", "exit0", "exit2", "exit3", "usage"}

\* What the registry answers to check_update
Latest == {"newer", "same", "error"}

\* One process: the main thread at pc, the update-check thread, what the
\* thread has done, and the exit code of the process
MainRuns ==
    [fn : {"main"}, should_check : BOOLEAN, latest : Latest, command : CommandEnds,
     pc : {"main"}, thread : {"none"}, printed : {FALSE}, marked : {FALSE},
     joined : {FALSE}, code : {"none"}]

InitMain == Quiet /\ probe \in MainRuns

MainStep(p) ==
    /\ probe.fn = "main"
    /\ probe' = p
    /\ UNCHANGED <<branches, br, worktrees, wtBranch, used, wtDirty, wtOp, metas, tomls, mainHead, mainOp,
                   mainOpBranch, mainResolved, mainStale, mainEdit, mergeState,
                   pathFile, snap, last>>

\* std::process::exit(code): the process ends at once, the other thread
\* stops wherever it is and is not waited for
process_exit(p, code) == [p EXCEPT !.pc = "exited", !.code = code]

\* main 10-18: the thread is spawned when should_check says so
spawn_update_check ==
    /\ probe.pc = "main"
    /\ MainStep([probe EXCEPT !.pc = "parse",
                              !.thread = IF probe.should_check THEN "check_update"
                                         ELSE "none"])

\* main 20: Cli::parse()
CliParse ==
    /\ probe.pc = "parse"
    /\ MainStep(IF probe.command = "usage" THEN process_exit(probe, "2")
                ELSE [probe EXCEPT !.pc = "run"])

\* main 21: cli.run() comes to its end
CliRun ==
    /\ probe.pc = "run"
    /\ MainStep(CASE probe.command = "exit0" -> process_exit(probe, "0")
                  [] probe.command = "exit2" -> process_exit(probe, "2")
                  [] probe.command = "exit3" -> process_exit(probe, "3")
                  [] OTHER -> [probe EXCEPT !.pc = "join"])

\* main 24-26: handle.join() returns when the thread has finished
JoinUpdateCheck ==
    /\ probe.pc = "join"
    /\ probe.thread \in {"none", "done"}
    /\ MainStep([probe EXCEPT !.pc = "report", !.joined = probe.thread = "done"])

\* main 28-31: exit(1) after an error, else the end of main
MainReturns ==
    /\ probe.pc = "report"
    /\ MainStep(process_exit(probe, IF probe.command = "Err" THEN "1" ELSE "0"))

\* The thread (main 35-46): check_update, with a message when a newer
\* version exists
CheckUpdate ==
    /\ probe.pc # "exited"
    /\ probe.thread = "check_update"
    /\ MainStep([probe EXCEPT !.thread = "mark_checked",
                              !.printed = probe.latest = "newer"])

\* The thread: mark_checked, and the end of the closure
MarkChecked ==
    /\ probe.pc # "exited"
    /\ probe.thread = "mark_checked"
    /\ MainStep([probe EXCEPT !.thread = "done", !.marked = TRUE])

NextMain ==
    \/ spawn_update_check
    \/ CliParse
    \/ CliRun
    \/ JoinUpdateCheck
    \/ MainReturns
    \/ CheckUpdate
    \/ MarkChecked

SpecMain == InitMain /\ [][NextMain]_vars

\* ------------------------------------------------------------------------
\* Properties
\* ------------------------------------------------------------------------

\* Branches, worktrees, metadata, the main repository and the marker
RepoVars ==
    <<branches, br, worktrees, wtBranch, used, wtDirty, wtOp, metas, tomls, mainHead, mainOp, mainOpBranch,
      mainResolved, mainStale, mainEdit, mergeState>>

\* The step is a run of the command cmd
Ran(cmd) == last = NoLast /\ last'.cmd = cmd

\* C1: while a MergeState marker is outstanding, a new `merge` is rejected
\* with an error and leaves the marker as it is.
C1_NewMergeRejected ==
    [][(mergeState # Absent /\ Ran("merge"))
         => (last'.exit # 0 /\ mergeState' = mergeState)]_vars

\* C2: whenever the marker exists, the main repository is stopped in the
\* conflicted merge of the branch the marker names (a merge that succeeded,
\* was a no-op or failed for another reason has left no marker).
C2_MarkerOnlyInConflict ==
    mergeState # Absent => (mainOp # "none" /\ mainOpBranch = mergeState)

\* C3: a `merge` that ends in a conflict has saved its branch as MergeState,
\* has run neither the post-merge hooks nor the cleanup, and has left every
\* worktree, branch and metadata file as it was.
C3_ConflictPreserves ==
    [][(Ran("merge") /\ last'.outcome = "conflict")
         => /\ mergeState' = last'.branch
            /\ ~Has(last'.steps, "post_merge_hooks")
            /\ ~Has(last'.steps, "cleanup_worktree")
            /\ UNCHANGED <<branches, br, worktrees, wtBranch, used, wtDirty, wtOp, metas, tomls>>]_vars

C3_Witness ==
    /\ last.cmd = "merge" /\ last.outcome = "conflict"
    /\ mainOp = "merge" /\ ~mainResolved
    /\ mergeState = last.branch
    /\ last.branch \in worktrees \cap branches \cap metas

\* C4 as stated: after `merge --abort` the marker is absent, whether or not
\* an abort attempt succeeded.
C4_AbortAlwaysClears == last.cmd = "merge --abort" => mergeState = Absent

AllAbortsFailed == <<"merge_abort:fail", "rebase_abort:fail", "reset_merge:fail">>

\* C4: after a `merge --abort` that succeeded the marker is absent; when all
\* three abort attempts fail the command fails and the marker is as it was.
C4_AbortClearsOnSuccess ==
    [][Ran("merge --abort")
         => IF last'.exit = 0
            THEN mergeState' = Absent /\ last'.steps # AllAbortsFailed
            ELSE mergeState' = mergeState /\ last'.steps = AllAbortsFailed]_vars

C4_Witness ==
    /\ last.cmd = "merge --abort" /\ last.exit # 0
    /\ last.steps = AllAbortsFailed
    /\ mergeState # Absent /\ mainOp # "none"

\* C5: `merge --abort` run while the main repository has no merge, rebase
\* or squash in progress fails with an error.
C5_AbortOfNothingFails ==
    [][(Ran("merge --abort") /\ mainOp = "none") => last'.exit # 0]_vars

\* A precondition of `merge` is broken for the branch b the command is run on
PreconditionBroken(b) ==
    \/ b = Trunk
    \/ \E d \in worktrees : wtBranch[d] = b /\ wtDirty[d]
    \/ mainOp # "none"
    \/ mainEdit # "none"

\* C6: a `merge` run with a broken precondition returns an error and has
\* neither checked out trunk, committed, written MergeState nor removed a
\* worktree, branch or metadata file.
C6_PreconditionsEnforced ==
    [][(Ran("merge") /\ PreconditionBroken(last'.branch))
         => /\ last'.exit # 0
            /\ \A x \in {"checkout_trunk", "git_merge", "git_rebase", "git_commit",
                          "save_merge_state", "cleanup_worktree"} :
                  ~Has(last'.steps, x)
            /\ UNCHANGED RepoVars]_vars

\* a second merge while the merge of another branch is stopped on a conflict
C6_Witness ==
    /\ last.cmd = "merge" /\ last.outcome = "main_dirty" /\ last.exit = 1
    /\ mainOp # "none" /\ mainOpBranch # last.branch
    /\ mergeState = mainOpBranch
    /\ last.branch \in worktrees

\* C7: after a merge that completed without --keep (directly or through
\* --continue) the worktree of the merged branch and the branch are gone.
C7_MergedWorktreeGone ==
    [][((Ran("merge") \/ Ran("merge --continue"))
          /\ last'.outcome = "merged" /\ Has(last'.steps, "cleanup_worktree")
          /\ last'.branch \in worktrees)
         => (last'.branch \notin worktrees' /\ last'.branch \notin branches')]_vars

\* The agent has returned with this status in a loop of this mode
AgentReturned(mode, status) ==
    snap.mode = mode /\ snap.pc = "exited" /\ snap.status = status

\* C9: in both snap loops a non-zero exit status of the agent ends the loop
\* at once: no prompt, no snap-continue, merge or cleanup, and the worktree,
\* its branch and its metadata (the whole repository) stay as they were.
C9_AbnormalExitStops ==
    [][(snap.pc = "exited" /\ snap.status # 0)
         => /\ snap' = NoSnap
            /\ last'.outcome = "agent_abnormal"
            /\ last'.steps = <<>>
            /\ UNCHANGED RepoVars]_vars

\* the agent failed after committing work and leaving edits behind
C9_Witness ==
    /\ last.outcome = "agent_abnormal" /\ last.steps = <<>>
    /\ snap = NoSnap
    /\ last.branch \in worktrees \cap metas
    /\ wtDirty[last.branch] /\ br[last.branch].ahead > 0

\* The worktree of b has nothing uncommitted and commits ahead of trunk
CleanAhead(b) == b \in worktrees /\ ~wtDirty[b] /\ br[b].ahead > 0

Prompted(steps) == Has(steps, "snap_merge_prompt")

MergeStarted(steps) == Has(steps, "pre_merge_hooks") \/ Has(steps, "checkout_trunk")

\* The user is asked {merge, exit}; the merge starts only on "merge", and any
\* other answer leaves the repository untouched.
AskedBeforeMerge ==
    /\ Prompted(last'.steps)
    /\ MergeStarted(last'.steps) => last'.steps[2] = "merge"
    /\ last'.steps[2] # "merge" => UNCHANGED RepoVars

\* C10 as stated: in both snap loops, an agent that returns normally with
\* nothing uncommitted and commits ahead leads to the {merge, exit} prompt,
\* and a merge is started only on the answer merge.
C10_PromptInEveryLoop ==
    [][(\E mode \in {"shell", "direct"} : AgentReturned(mode, 0) /\ CleanAhead(snap.branch))
         => AskedBeforeMerge]_vars

\* C10: snap-continue prompts {merge, exit} and merges only on the answer
\* merge, leaving everything untouched otherwise; run_snap_mode starts the
\* merge without a prompt.
C10_PromptOnlyInSnapContinue ==
    [][/\ (AgentReturned("shell", 0) /\ CleanAhead(snap.branch)) => AskedBeforeMerge
       /\ (AgentReturned("direct", 0) /\ CleanAhead(snap.branch))
            => (~Prompted(last'.steps) /\ MergeStarted(last'.steps))]_vars

\* the direct loop has merged and cleaned up without asking
C10_Witness ==
    /\ last.cmd = "run_snap_mode" /\ last.outcome = "merged"
    /\ ~Prompted(last.steps)
    /\ last.branch \notin worktrees

Returned == probe.fn = "determine_action_with_choice" /\ probe.action # Pending

\* C8: for every (has_uncommitted, has_commits_ahead, choice) the decision
\* function returns one action of SnapAction: CleanupNoChanges with nothing
\* uncommitted and nothing ahead; MergeAndCleanup with nothing uncommitted,
\* commits ahead and the choice merge; Reopen with uncommitted changes and the
\* choice reopen; ExitPreserve otherwise.
C8_DecisionTable ==
    Returned =>
        /\ probe.action \in SnapActions
        /\ probe.action =
             CASE ~probe.has_uncommitted /\ ~probe.has_commits_ahead
                    -> "CleanupNoChanges"
               [] ~probe.has_uncommitted /\ probe.has_commits_ahead
                  /\ probe.merge = "Merge"
                    -> "MergeAndCleanup"
               [] probe.has_uncommitted /\ probe.exit = "Reopen"
                    -> "Reopen"
               [] OTHER -> "ExitPreserve"

\* uncommitted changes and commits ahead, both choices given: Reopen wins
C8_Witness ==
    /\ Returned
    /\ probe.has_uncommitted /\ probe.has_commits_ahead
    /\ probe.exit = "Reopen" /\ probe.merge = "Merge"
    /\ probe.action = "Reopen"

\* A snap loop's merge of the branch ran into a conflict: the branch clashes
\* with trunk and the step got as far as `git merge`
MetConflict ==
    /\ Ran("snap-continue") \/ Ran("run_snap_mode")
    /\ br[last'.branch].clash
    /\ Has(last'.steps, "git_merge")

\* C11: a merge conflict met inside the snap loop does not end the process
\* with the error exit code; the main repository is rolled back (no merge or
\* rebase in progress), no MergeState is written, no directory is handed
\* off, and the worktree, its branch and its metadata are as before.
C11_SnapConflictRolledBack ==
    [][MetConflict =>
          /\ last'.exit # 1
          /\ mainOp' = "none"
          /\ pathFile' = Absent
          /\ last'.branch \in worktrees' \cap branches' \cap metas'
          /\ UNCHANGED <<mergeState, br, wtBranch, used, wtDirty>>]_vars

\* The same for the loop that the shell wrapper drives through snap-continue
C11_ShellLoopRolledBack ==
    [][MetConflict /\ Ran("snap-continue") =>
          /\ last'.exit = 3
          /\ mainOp' = "none"
          /\ pathFile' = Absent
          /\ last'.branch \in worktrees' \cap branches' \cap metas'
          /\ UNCHANGED <<mergeState, br, wtBranch, used, wtDirty>>]_vars

\* snap-continue has just rolled a conflicting merge back
C11_Witness ==
    /\ last # NoLast /\ last.cmd = "snap-continue"
    /\ Has(last.steps, "git_merge") /\ Has(last.steps, "rollback")
    /\ br[last.branch].clash
    /\ last.exit = 3 /\ mainOp = "none"

\* C12: snap-continue exits 0 only after the worktree was removed and the
\* repository root written as the hand-off path; it exits 2 exactly when the
\* decided action is Reopen, 3 exactly when the worktree is preserved
\* (ExitPreserve, or a merge that failed and was rolled back); on 2 and 3 it
\* writes no hand-off file and removes no worktree, branch or metadata;
\* every other end is a reported error and exits 1.
C12_ExitCodes ==
    [][Ran("snap-continue") =>
          LET b == last'.branch
              e == last'.exit
              preserved ==
                  \/ last'.outcome = "ExitPreserve"
                  \/ last'.outcome = "MergeAndCleanup" /\ Has(last'.steps, "rollback")
          IN /\ e \in {0, 1, 2, 3}
             /\ e = 0 => /\ b \in worktrees /\ b \notin worktrees'
                         /\ Has(last'.steps, "cleanup_worktree")
                         /\ pathFile' = <<MainRepo>>
             /\ (e = 2) <=> (last'.outcome = "Reopen")
             /\ (e = 3) <=> preserved
             /\ e \in {2, 3} => /\ pathFile' = Absent
                                /\ UNCHANGED <<branches, worktrees, wtBranch, used, wtOp, metas, tomls>>
             /\ e = 1 => /\ pathFile' = Absent
                         /\ last'.outcome \in {"CleanupNoChanges", "MergeAndCleanup"}
                         /\ ~Has(last'.steps, "write_path_file")]_vars

\* snap-continue merged the branch, removed the worktree and handed the
\* repository root to the wrapper
C12_Witness ==
    /\ last # NoLast /\ last.cmd = "snap-continue"
    /\ last.exit = 0 /\ last.outcome = "MergeAndCleanup"
    /\ last.branch \notin worktrees
    /\ pathFile = <<MainRepo>>

C14_HandoffRoundTrip ==
    probe.pc = "read" =>
        IF probe.fn = "write_path_file_lines"
        THEN probe.read = <<probe.path, probe.cmd>>
        ELSE probe.read = <<probe.path, <<>>>> /\ probe.read[2] # probe.path

\* The same for a command of one line that is not the path itself
C14_OneLineCommandRoundTrip ==
    (probe.pc = "read" /\ Breaks(probe.cmd) = {} /\ probe.cmd # probe.path) =>
        IF probe.fn = "write_path_file_lines"
        THEN probe.read = <<probe.path, probe.cmd>>
        ELSE probe.read = <<probe.path, <<>>>> /\ probe.read[2] # probe.path

\* All of text is white space
Blank(text) == \A i \in 1..Len(text) : text[i] \in White

\* text is inner with white space around it, and inner has none at its ends
TrimmedOf(text, inner) ==
    /\ \E i, j \in 0..Len(text) :
          /\ i + Len(inner) + j = Len(text)
          /\ Blank(SubSeq(text, 1, i))
          /\ SubSeq(text, i + 1, i + Len(inner)) = inner
          /\ Blank(SubSeq(text, i + Len(inner) + 1, Len(text)))
    /\ inner # <<>> => inner[1] \notin White /\ inner[Len(inner)] \notin White

\* C15: loading after a save of b returns b with the surrounding white space
\* trimmed; a load after a clear returns absent, not an error; a clear when
\* nothing is saved changes nothing.
C15_MergeStateRoundTrip ==
    /\ (probe.fn = "merge_state" /\ probe.op = "load") =>
          IF probe.file.exists
          THEN /\ probe.file.content = probe.branch
               /\ probe.loaded.res = "Some"
               /\ TrimmedOf(probe.branch, probe.loaded.value)
          ELSE probe.loaded.res = "None"
    /\ (probe.fn = "merge_state" /\ probe.op = "clear") =>
          /\ ~probe.file.exists
          /\ ~probe.before.exists => probe.file = probe.before

\* a branch text with white space on both sides was saved and loaded
C15_Witness ==
    /\ probe.fn = "merge_state" /\ probe.op = "load"
    /\ probe.branch = <<Space, "m", NL>>
    /\ probe.loaded = [res |-> "Some", value |-> <<"m">>]

\* The step is a run of `wt new b` for a name that a worktree was created
\* under before
CreatedAgain == Ran("new") /\ Has(last'.steps, "name_used_before")

AsCreated(b) ==
    /\ b \in worktrees \cap branches \cap metas
    /\ wtBranch[b] = b
    /\ ~wtDirty[b] /\ br[b].ahead = 0
    /\ mainOp = "none"

\* C17: create(b) followed by remove(b, force=false) succeeds and leaves no
\* worktree directory, no metadata file and no branch b.
C17_CreateThenRemove ==
    [][(Ran("rm") /\ AsCreated(last'.branch)) =>
          /\ last'.exit = 0
          /\ last'.branch \notin worktrees'
          /\ last'.branch \notin metas'
          /\ last'.branch \notin branches']_vars

\* C18: a remove that fails changes nothing: remove(b) fails with
\* WorktreeNotFound when b has no worktree, and without --force it fails on
\* a worktree with uncommitted changes, with git's refusal as the error; in
\* both cases directory, branch and metadata are exactly as before.
C18_FailedRemoveChangesNothing ==
    [][Ran("rm") =>
          LET b == last'.branch
          IN /\ b \notin worktrees =>
                   last'.exit = 1 /\ last'.outcome = "WorktreeNotFound"
             /\ (b \in worktrees /\ wtDirty[b] /\ ~Has(last'.steps, "--force")) =>
                   last'.exit = 1 /\ last'.outcome = "remove_failed"
             /\ last'.exit # 0 => UNCHANGED RepoVars]_vars

\* What of C18 does not depend on the error reported for a dirty worktree
C18_FailedRemoveIsHarmless ==
    [][Ran("rm") =>
          LET b == last'.branch
          IN /\ b \notin worktrees =>
                   last'.exit = 1 /\ last'.outcome = "WorktreeNotFound"
             /\ (b \in worktrees /\ wtDirty[b] /\ ~Has(last'.steps, "--force")) =>
                   last'.exit = 1
             /\ last'.exit # 0 => UNCHANGED RepoVars]_vars

\* Every managed worktree directory is bound to the branch of its name
DirectoryIsBranch == \A d \in worktrees : wtBranch[d] = d

\* No branch is checked out in two managed worktrees
OneWorktreePerBranch ==
    \A d, e \in worktrees : wtBranch[d] = wtBranch[e] => d = e

\* C19: rename(old, new) is all-or-nothing: when it fails (new taken as a
\* worktree or as a branch name, old without a worktree) directories,
\* branches and metadata are as before; so every managed worktree
\* directory is bound to the branch of its name, and no branch has two
\* worktrees.
C19_RenameAllOrNothing ==
    /\ [][(Ran("mv") /\ last'.exit # 0) => UNCHANGED RepoVars]_vars
    /\ [](DirectoryIsBranch /\ OneWorktreePerBranch)

\* The directories a run of `wt ls` in this state reports
Listed == { d \in Names : Has(ls_run(Cur).steps, d) }

\* C20: list and clean work on the same managed set, the worktrees under
\* the workspace directory: every worktree that list reports is considered
\* by clean, and clean removes no worktree outside that set, no trunk and
\* no worktree without a branch.
C20_CleanSeesWhatListShows ==
    [][Ran("clean") =>
          /\ \A d \in Listed : Has(last'.steps, d)
          /\ (worktrees \ worktrees') \subseteq Listed
          /\ \A d \in worktrees \ worktrees' : wtBranch[d] \in branches]_vars

\* The last command merged the worktree's branch without --into
MergedByDefault ==
    /\ probe.fn = "trunk"
    /\ probe.cmd \in {"merge", "snap-continue", "run_snap_mode"}
    /\ probe.into = Absent

\* C21: the branch a worktree is merged into (merge without --into, the
\* snap loop) is the trunk recorded in its metadata at creation, whatever
\* the configuration and the repository say now; only a worktree without
\* metadata falls back to detection.
C21_TargetIsRecordedTrunk ==
    MergedByDefault =>
        probe.target = IF probe.meta # Absent THEN probe.meta
                       ELSE detect_trunk(probe.heads, probe.origin)

\* The same for the snap loop alone
C21_SnapTargetIsRecordedTrunk ==
    (MergedByDefault /\ probe.cmd # "merge") =>
        probe.target = IF probe.meta # Absent THEN probe.meta
                       ELSE detect_trunk(probe.heads, probe.origin)

\* ------------------------------------------------------------------------
\* The message of a squash merge: git::log_oneline and build_merge_message
\* (src/git/mod.rs, src/cli/commands/merge.rs)
\* ------------------------------------------------------------------------

MaxCommits == 3
MaxSubject == 3

\* The subject of a commit is one line without blanks at its ends; a text
\* is a sequence of characters, a hash, a branch name and the fixed words of
\* the generic message being one character each.
SubjectChars == {"F", "*", Space}

Subjects ==
    { t \in Texts(SubjectChars, MaxSubject) :
        t # <<>> => t[1] # Space /\ t[Len(t)] # Space }

\* the abbreviated hash of the i-th commit of the log
short_hash(i) == ToString(i)

CommitLogs == UNION { [1..n -> Subjects] : n \in 0..MaxCommits }

\* the output of `git log --oneline trunk..branch`: "<hash> <subject>\n"
\* for every commit
RECURSIVE oneline_from(_, _)
oneline_from(commits, i) ==
    IF i > Len(commits) THEN <<>>
    ELSE <<short_hash(i), Space>> \o commits[i] \o <<NL>>
            \o oneline_from(commits, i + 1)

log_oneline(commits) == oneline_from(commits, 1)

\* str::lines(): the pieces between line breaks, without a last empty one
RECURSIVE lines(_)
lines(text) ==
    IF text = <<>> THEN <<>>
    ELSE IF Breaks(text) = {} THEN <<text>>
    ELSE LET b == Min(Breaks(text))
         IN <<SubSeq(text, 1, b - 1)>> \o lines(SubSeq(text, b + 1, Len(text)))

\* str::trim_end()
trim_end(text) ==
    LET solid == { i \in 1..Len(text) : text[i] \notin White }
    IN IF solid = {} THEN <<>> ELSE SubSeq(text, 1, Max(solid))

\* format!("Merge branch '{branch}'")
generic_message(branch) == <<"Merge branch '", branch, "'">>

\* Variant: the single line of the log is taken as it is
single_commit_whole_line(branch, line) == line

\* the arm for one line: split_once(' '), the part after the first blank
single_commit_message(branch, line) ==
    LET blanks == { i \in 1..Len(line) : line[i] = Space }
    IN IF blanks = {} THEN generic_message(branch)
       ELSE SubSeq(line, Min(blanks) + 1, Len(line))

\* Variant: the bullets are written from the last line of the log to the first
RECURSIVE bullet_lines_from_last(_)
bullet_lines_from_last(ls) ==
    IF ls = <<>> THEN <<>>
    ELSE bullet_lines_from_last(Tail(ls)) \o <<"*", Space>> \o Head(ls) \o <<NL>>

\* the loop of the arm for several lines: "* {line}\n" for each
RECURSIVE bullet_lines(_)
bullet_lines(ls) ==
    IF ls = <<>> THEN <<>>
    ELSE <<"*", Space>> \o Head(ls) \o <<NL>> \o bullet_lines(Tail(ls))

build_merge_message(branch, log) ==
    LET ls == SelectSeq(lines(log), LAMBDA l : l # <<>>)
    IN IF Len(ls) = 0 THEN generic_message(branch)
       ELSE IF Len(ls) = 1 THEN single_commit_message(branch, ls[1])
       ELSE trim_end(generic_message(branch) \o <<NL, NL>> \o bullet_lines(ls))

\* pc: "commits" before the log is read, "log" with the log text,
\* "message" with the message built from it
MessageCalls ==
    [fn : {"message"}, branch : {"x"}, commits : CommitLogs, pc : {"commits"},
     log : {<<>>}, msg : {<<>>}]

InitMessage == Quiet /\ probe \in MessageCalls

MessageStep(p) ==
    /\ probe' = p
    /\ UNCHANGED <<branches, br, worktrees, wtBranch, used, wtDirty, wtOp, metas, tomls, mainHead,
                   mainOp, mainOpBranch, mainResolved, mainStale, mainEdit,
                   mergeState, pathFile, snap, last>>

\* execute_merge line 257
LogOneline ==
    /\ probe.fn = "message" /\ probe.pc = "commits"
    /\ MessageStep([probe EXCEPT !.pc = "log", !.log = log_oneline(probe.commits)])

\* execute_merge line 258
BuildMergeMessage ==
    /\ probe.fn = "message" /\ probe.pc = "log"
    /\ MessageStep([probe EXCEPT !.pc = "message",
                                 !.msg = build_merge_message(probe.branch, probe.log)])

NextMessage == LogOneline \/ BuildMergeMessage

SpecMessage == InitMessage /\ [][NextMessage]_vars

\* ------------------------------------------------------------------------
\* The message of a failed git call: extract_error and clean_git_error
\* (src/git/mod.rs)
\* ------------------------------------------------------------------------

MaxErr == 3
MaxOut == 2

\* What git wrote: a text is a sequence of characters, a prefix word and
\* the sentence about a worktree with changes being one character each.
Fatal == "fatal:"

ErrorWord == "error:"

ModifiedFiles == "'/ws/b' contains modified or untracked files, use --force to delete it"

ErrChars == {"e", Space, Fatal, ErrorWord, ModifiedFiles}

OutChars == {"o", Space}

\* The functions that run git and return Error::Command on failure
GitCalls ==
    {"merge", "commit", "merge_continue", "rebase", "checkout", "create_worktree",
     "remove_worktree", "move_worktree", "delete_branch", "rename_branch",
     "rebase_abort", "rebase_continue", "merge_abort", "reset_merge"}

\* clean_git_error: trim, drop the prefix, rewrite the worktree sentence
clean_git_error(stderr) ==
    LET msg == trim(stderr)
        body == IF Len(msg) >= 2 /\ msg[1] \in {Fatal, ErrorWord} /\ msg[2] = Space
                THEN SubSeq(msg, 3, Len(msg)) ELSE msg
    IN IF Has(body, ModifiedFiles)
       THEN <<"worktree 'b' has uncommitted changes, use --force">>
       ELSE body

\* extract_error: stderr, or stdout when stderr is blank
extract_error(stderr, stdout) ==
    IF trim(stderr) = <<>> THEN trim(stdout) ELSE clean_git_error(stderr)

\* The message of Error::Command for a failed call: merge, commit and
\* merge_continue go through extract_error, every other function passes
\* its stderr to clean_git_error
command_error(call, stderr, stdout) ==
    IF call \in {"merge", "commit", "merge_continue"}
    THEN extract_error(stderr, stdout)
    ELSE clean_git_error(stderr)

ErrorCalls ==
    [fn : {"error"}, call : GitCalls, stderr : Texts(ErrChars, MaxErr),
     stdout : Texts(OutChars, MaxOut), pc : {"failed"}, msg : {<<>>}]

InitError == Quiet /\ probe \in ErrorCalls

\* the git process ended with a failure status: Err(Error::Command(..))
CommandFails ==
    /\ probe.fn = "error" /\ probe.pc = "failed"
    /\ probe' = [probe EXCEPT !.pc = "reported",
                              !.msg = command_error(probe.call, probe.stderr,
                                                    probe.stdout)]
    /\ UNCHANGED <<branches, br, worktrees, wtBranch, used, wtDirty, wtOp, metas, tomls,
                   mainHead, mainOp, mainOpBranch, mainResolved, mainStale, mainEdit,
                   mergeState, pathFile, snap, last>>

NextError == CommandFails

SpecError == InitError /\ [][NextError]_vars

\* ------------------------------------------------------------------------
\* git::workspace_id (src/git/mod.rs)
\* ------------------------------------------------------------------------

\* hash & 0xFFFFFF keeps the low 24 bits
HashMask == 16777216

\* {:06x}
HexWidth == 6

HexDigits ==
    <<"0", "1", "2", "3", "4", "5", "6", "7", "8", "9", "a", "b", "c", "d", "e", "f">>

\* Canonical root paths: a parent directory and the directory name
ParentDirs == {"/home/u", "/srv"}

DirNames == {"repo", "app"}

RootPaths == ParentDirs \X DirNames

\* Values of the 64-bit hash of a path; the second differs from the first
\* above bit 24 only
HashValues == {5, 5 + HashMask, 11259375}

\* DefaultHasher::new() has fixed keys: the hash is a function of the path,
\* the same in every run, and nothing more is known of it
Hashers == [RootPaths -> HashValues]

RECURSIVE power(_, _)
power(b, n) == IF n = 0 THEN 1 ELSE b * power(b, n - 1)

\* format!("{:06x}", n) for n below 16^6
hex6(n) ==
    [i \in 1..HexWidth |-> HexDigits[((n \div power(16, HexWidth - i)) % 16) + 1]]

\* repo_name(): the last component of the root
repo_name(root) == root[2]

workspace_id(hasher, root) ==
    <<repo_name(root), "-">> \o hex6(hasher[root] % HashMask)

\* ids: for every root the ids computed for it so far, in order
IdCalls == [fn : {"id"}, hasher : Hashers, ids : {[r \in RootPaths |-> <<>>]}]

InitId == Quiet /\ probe \in IdCalls

\* a command run in the repository at root calls workspace_id()
WorkspaceIdCalled(root) ==
    /\ probe.fn = "id"
    /\ Len(probe.ids[root]) < 2
    /\ probe' = [probe EXCEPT !.ids[root] = Append(@, workspace_id(probe.hasher, root))]
    /\ UNCHANGED <<branches, br, worktrees, wtBranch, used, wtDirty, wtOp, metas, tomls,
                   mainHead, mainOp, mainOpBranch, mainResolved, mainStale, mainEdit,
                   mergeState, pathFile, snap, last>>

NextId == \E root \in RootPaths : WorkspaceIdCalled(root)

SpecId == InitId /\ [][NextId]_vars

\* ------------------------------------------------------------------------
\* run_hooks (src/process/mod.rs)
\* ------------------------------------------------------------------------

MaxHooks == 3

\* A hook is a shell command and what happens when it is run: it exits with
\* success ("ok"), exits with another status ("fail"), or the shell cannot
\* be started at all ("spawn": run_interactive returns Error::Spawn).
HookCommands == {"test", "lint"}

Hook == [cmd : HookCommands, outcome : {"ok", "fail", "spawn"}]

HookLists == UNION { [1..n -> Hook] : n \in 0..MaxHooks }

\* run_hook: Ok, or the error it returns
run_hook(h) ==
    IF h.outcome = "spawn" THEN [err |-> "Spawn", named |-> Absent]
    ELSE IF h.outcome = "fail" THEN [err |-> "HookFailed", named |-> h.cmd]
    ELSE [err |-> "none", named |-> Absent]

\* Variant: a failing hook is noted and the loop goes on to the next one
run_hooks_turn_going_on(p) ==
    LET e == run_hook(p.hooks[p.i])
    IN [p EXCEPT !.ran = Append(@, p.i), !.i = @ + 1,
                 !.named = IF e.err = "none" THEN @ ELSE e.named,
                 !.result = IF p.i = Len(p.hooks) /\ e.err # "none" THEN e.err
                            ELSE @]

\* One turn of the `for hook in hooks` loop: hook i is run, and its error
\* is returned with `?`
run_hooks_turn(p) ==
    LET e == run_hook(p.hooks[p.i])
    IN [p EXCEPT !.ran = Append(@, p.i), !.i = @ + 1,
                 !.named = e.named,
                 !.result = IF e.err = "none" THEN @ ELSE e.err]

\* ran: the positions of the list whose hook has been started, in the order
\* they were started; result: "running" until run_hooks returns.
HookCalls ==
    [fn : {"hooks"}, hooks : HookLists, i : {1}, ran : {<<>>},
     result : {"running"}, named : {Absent}]

InitHooks == Quiet /\ probe \in HookCalls

HooksStep(p) ==
    /\ probe' = p
    /\ UNCHANGED <<branches, br, worktrees, wtBranch, used, wtDirty, wtOp, metas, tomls, mainHead,
                   mainOp, mainOpBranch, mainResolved, mainStale, mainEdit,
                   mergeState, pathFile, snap, last>>

HookRuns ==
    /\ probe.fn = "hooks" /\ probe.result = "running"
    /\ probe.i <= Len(probe.hooks)
    /\ HooksStep(run_hooks_turn(probe))

\* the list is exhausted: Ok(())
HooksReturnOk ==
    /\ probe.fn = "hooks" /\ probe.result = "running"
    /\ probe.i > Len(probe.hooks)
    /\ HooksStep([probe EXCEPT !.result = "ok"])

NextHooks == HookRuns \/ HooksReturnOk

SpecHooks == InitHooks /\ [][NextHooks]_vars

\* ------------------------------------------------------------------------
\* Hooks
\* ------------------------------------------------------------------------

\* A command has just returned because one of its hooks failed.
HookAborted == last = NoLast /\ last' # NoLast /\ Has(last'.steps, "HookFailed")

\* The hook list that failed: the step before the failure.
FailedHooks == last'.steps[Len(last'.steps) - 1]

\* C22: a failing hook aborts the enclosing command.  The command returns
\* an error and the failure is the last thing it did.  After a pre-merge
\* failure the repository is as before: trunk is not checked out, nothing
\* is merged, no MergeState is written.  After a post-merge failure the
\* worktree, the branch and the metadata of the merged branch are still
\* there.  After a post-create failure no hand-off file is written and no
\* snap loop is entered.
C22_FailingHookAborts ==
    [][HookAborted =>
          /\ last'.exit # 0
          /\ last'.steps[Len(last'.steps)] = "HookFailed"
          /\ FailedHooks \in {"pre_merge_hooks", "post_merge_hooks", "post_create_hooks"}
          /\ FailedHooks = "pre_merge_hooks" =>
                /\ UNCHANGED RepoVars
                /\ ~Has(last'.steps, "checkout_trunk")
          /\ FailedHooks = "post_merge_hooks" =>
                /\ UNCHANGED <<branches, worktrees, wtBranch, metas, tomls>>
                /\ ~Has(last'.steps, "cleanup_worktree")
          /\ FailedHooks = "post_create_hooks" =>
                /\ ~Has(last'.steps, "write_path_file")
                /\ UNCHANGED <<snap, pathFile>>
          /\ pathFile' = Absent]_vars

\* A merge went through, its post-merge hooks failed, and the merged
\* worktree is still there.
C22_Witness ==
    /\ last # NoLast /\ Has(last.steps, "HookFailed")
    /\ Has(last.steps, "post_merge_hooks")
    /\ last.exit = 1
    /\ Has(last.steps, "git_commit")
    /\ last.branch \in worktrees \cap branches \cap metas
    /\ mainHead = Trunk

\* The first position of a list whose hook does not succeed; 0 if all do.
FirstBad(hooks) ==
    IF \A j \in 1..Len(hooks) : hooks[j].outcome = "ok" THEN 0
    ELSE CHOOSE j \in 1..Len(hooks) :
            /\ hooks[j].outcome # "ok"
            /\ \A k \in 1..(j - 1) : hooks[k].outcome = "ok"

\* C23: run_hooks runs the hooks one at a time in list order and stops at
\* the first one that fails.  At any moment the hooks started are the first
\* ones of the list, each once and in order, and none after the first hook
\* that does not succeed.  When the call has returned: with no failure
\* every hook ran once and the call succeeded; otherwise the hooks up to
\* the first failing one ran, none after it, and the error is HookFailed
\* naming that hook's command (Spawn when the shell could not be started).
C23_HooksInOrderUntilFailure ==
    probe.fn = "hooks" =>
       LET hooks == probe.hooks
           bad == FirstBad(hooks)
           last_run == IF bad = 0 THEN Len(hooks) ELSE bad
       IN /\ Len(probe.ran) <= last_run
          /\ \A j \in 1..Len(probe.ran) : probe.ran[j] = j
          /\ probe.result # "running" =>
                /\ Len(probe.ran) = last_run
                /\ (bad = 0) = (probe.result = "ok")
                /\ bad # 0 /\ hooks[bad].outcome = "fail" =>
                      probe.result = "HookFailed" /\ probe.named = hooks[bad].cmd
                /\ bad # 0 /\ hooks[bad].outcome = "spawn" =>
                      probe.result = "Spawn"

\* A list of three hooks whose second one failed: run_hooks has returned
\* after the first two.
C23_Witness ==
    /\ probe.fn = "hooks" /\ Len(probe.hooks) = 3
    /\ probe.hooks[1].outcome = "ok" /\ probe.hooks[2].outcome = "fail"
    /\ probe.result = "HookFailed" /\ probe.ran = <<1, 2>>
    /\ probe.named = probe.hooks[2].cmd

\* ------------------------------------------------------------------------
\* Squash merge of a branch equal to trunk
\* ------------------------------------------------------------------------

\* A command has just squash-merged a branch and git staged nothing: the
\* content of the branch was already that of trunk.  Its hooks passed.
SquashedNothing ==
    /\ last = NoLast /\ last' # NoLast
    /\ Has(last'.steps, "nothing_staged")
    /\ ~Has(last'.steps, "HookFailed")

\* C24: a squash merge of a branch whose content already equals trunk
\* creates no commit and is a no-op, not an error: the command exits 0 and
\* writes no MergeState.
C24_SquashOfEqualIsNoOp ==
    [][SquashedNothing =>
          /\ last'.exit = 0
          /\ ~Has(last'.steps, "git_commit")
          /\ mergeState' = mergeState
          /\ mainOp' = "none"]_vars

\* The same for `wt merge` and snap-continue, which go through
\* execute_merge of merge.rs.
C24_ExecuteMergeNoOp ==
    [][SquashedNothing /\ last'.cmd # "run_snap_mode" =>
          /\ last'.exit = 0
          /\ ~Has(last'.steps, "git_commit")
          /\ mergeState' = mergeState
          /\ mainOp' = "none"]_vars

\* ------------------------------------------------------------------------
\* The synthesized merge message
\* ------------------------------------------------------------------------

MessageBuilt == probe.fn = "message" /\ probe.pc = "message"

\* C25: with no commit between trunk and branch the message is
\* "Merge branch 'x'"; with exactly one commit it is that commit's subject,
\* the hash and the blank after it removed.
C25_ShortLogMessage ==
    MessageBuilt =>
       /\ Len(probe.commits) = 0 =>
             probe.msg = <<"Merge branch '", probe.branch, "'">>
       /\ Len(probe.commits) = 1 => probe.msg = probe.commits[1]

\* One commit whose subject has a blank in it.
C25_Witness ==
    /\ MessageBuilt /\ Len(probe.commits) = 1
    /\ probe.commits[1] = <<"F", Space, "F">>
    /\ probe.msg = <<"F", Space, "F">>

\* The positions of a text at which a line starts
LineStarts(text) ==
    { i \in 1..Len(text) : i = 1 \/ text[i - 1] = NL }

\* The lines of a text that start with "* "
Bullets(text) ==
    { i \in LineStarts(text) :
        i + 1 <= Len(text) /\ text[i] = "*" /\ text[i + 1] = Space }

\* C26: with two or more commits the message starts with "Merge branch 'x'"
\* and a blank line, and has one "* " line per commit, in the order of the
\* log, each with the hash and the subject of its commit, and no other
\* line that starts with "* ".
C26_BulletPerCommit ==
    (MessageBuilt /\ Len(probe.commits) >= 2) =>
       LET msg == probe.msg
           n == Len(probe.commits)
           k_th(i) == Cardinality({ j \in Bullets(msg) : j <= i })
       IN /\ Len(msg) >= 5
          /\ SubSeq(msg, 1, 5) = <<"Merge branch '", probe.branch, "'", NL, NL>>
          /\ Cardinality(Bullets(msg)) = n
          /\ \A i \in Bullets(msg) :
                LET c == probe.commits[k_th(i)]
                    line == <<"*", Space, short_hash(k_th(i))>>
                               \o (IF c = <<>> THEN <<>> ELSE <<Space>> \o c)
                IN /\ i + Len(line) - 1 <= Len(msg)
                   /\ SubSeq(msg, i, i + Len(line) - 1) = line
                   /\ i + Len(line) <= Len(msg) => msg[i + Len(line)] \in White

\* Three commits, the second with a subject that itself reads like a bullet.
C26_Witness ==
    /\ MessageBuilt /\ Len(probe.commits) = 3
    /\ probe.commits[2] = <<"*", Space, "F">>
    /\ Cardinality(Bullets(probe.msg)) = 3

\* ------------------------------------------------------------------------
\* wt sync
\* ------------------------------------------------------------------------

\* The directory, the mode and the strategy of the sync that has just run
SyncDir == last'.steps[1]

SyncMode == last'.steps[2]

SyncStrategy == last'.steps[3]

\* A rebase or a merge is in progress in the checkout at cwd.
InProgressAt(cwd) ==
    IF cwd = MainRepo THEN mainOp \in {"rebase", "merge"} ELSE wtOp[cwd] # "none"

\* The branch checked out at cwd
BranchAt(cwd) == IF cwd = MainRepo THEN mainHead ELSE wtBranch[cwd]

\* The repository as the marker leaves it out
Unmarked == [Cur EXCEPT !.mergeState = Absent]

\* C27: `sync --abort` and `sync --continue` return an error and run no
\* git command when neither a rebase nor a merge is in progress in the
\* current checkout; plain `sync` returns an error and changes nothing when
\* the current branch is trunk; and no sync writes or clears the MergeState
\* marker or depends on it: with and without the marker the run does the
\* same.
C27_SyncErrorsAndMarker ==
    [][Ran("sync") =>
          /\ mergeState' = mergeState
          /\ (SyncMode # "plain" /\ ~InProgressAt(SyncDir)) =>
                /\ last'.exit = 1
                /\ Len(last'.steps) = 3
                /\ UNCHANGED RepoVars
          /\ (SyncMode = "plain" /\ BranchAt(SyncDir) = Trunk) =>
                /\ last'.exit = 1
                /\ Len(last'.steps) = 3
                /\ UNCHANGED RepoVars
          /\ \E resolved \in BOOLEAN :
                LET r == sync_run(Unmarked, SyncDir, SyncMode, SyncStrategy, resolved)
                IN /\ last'.exit = r.exit
                   /\ last'.outcome = r.outcome
                   /\ [Cur EXCEPT !.mergeState = Absent]' = r.s]_vars

\* A squash of `wt merge` stopped in the main repository and left its
\* marker; `wt sync --abort` there found no rebase and no merge in progress.
C27_Witness ==
    /\ last # NoLast /\ last.cmd = "sync"
    /\ last.steps = <<MainRepo, "--abort", "rebase">>
    /\ last.exit = 1
    /\ mainOp = "squash" /\ mergeState # Absent

\* ------------------------------------------------------------------------
\* The message of a failed git call
\* ------------------------------------------------------------------------

ErrorReported == probe.fn = "error" /\ probe.pc = "reported"

\* The message is made of what git wrote to its standard error.
FromStderr(msg) ==
    /\ msg # <<>>
    /\ \A i \in 1..Len(msg) : msg[i] \notin OutChars \ {Space}

\* The message is the standard output without the blanks at its ends.
FromStdout(msg) == TrimmedOf(probe.stdout, msg)

\* C28: for every failing git call the message comes from standard error
\* when that is not blank, and from standard output when standard error is
\* empty or blank.
C28_StderrElseStdout ==
    ErrorReported =>
       IF Blank(probe.stderr) THEN FromStdout(probe.msg) ELSE FromStderr(probe.msg)

\* The same for the calls that go through extract_error.
C28_ExtractErrorCalls ==
    (ErrorReported /\ probe.call \in {"merge", "commit", "merge_continue"}) =>
       IF Blank(probe.stderr) THEN FromStdout(probe.msg) ELSE FromStderr(probe.msg)

\* ------------------------------------------------------------------------
\* workspace_id
\* ------------------------------------------------------------------------

\* The id has the form {directory-name}-{6 hex digits}.
IdForm(id, root) ==
    /\ Len(id) = 8
    /\ id[1] = root[2] /\ id[2] = "-"
    /\ \A i \in 3..8 : \E k \in 1..16 : id[i] = HexDigits[k]

\* Every id computed for a root has the form, and all of them are the same.
IdsStable ==
    \A r \in RootPaths :
       \A i \in 1..Len(probe.ids[r]) :
          IdForm(probe.ids[r][i], r) /\ probe.ids[r][i] = probe.ids[r][1]

\* C29: workspace_id is a deterministic function of the canonical root
\* path, of the form {directory-name}-{6 hex digits}, and two repositories
\* at different paths that share a directory name never get the same id.
C29_IdStableAndUnique ==
    probe.fn = "id" =>
       /\ IdsStable
       /\ \A r, q \in RootPaths :
             (r # q /\ r[2] = q[2] /\ probe.ids[r] # <<>> /\ probe.ids[q] # <<>>)
                => probe.ids[r][1] # probe.ids[q][1]

\* The part about the form and the determinism alone.
C29_IdStable == probe.fn = "id" => IdsStable

\* ------------------------------------------------------------------------
\* No loss of work at cleanup
\* ------------------------------------------------------------------------

\* A command that merges and cleans up has just run.
MergedAndCleaned ==
    /\ last = NoLast
    /\ last'.cmd \in {"merge", "merge --continue", "snap-continue", "run_snap_mode"}

\* The command has deleted branch b.
Deleted(b) == b \in branches /\ b \notin branches'

\* Branch b has no commit whose content trunk lacks.
NothingToLose(b) == br[b].ahead = 0 \/ br[b].integrated

\* The command itself has put the commits of b into trunk: its own merge
\* of b went through, or it has finished a stopped merge or squash of b
\* that began with b as it is now.
MergedInThisRun(b) ==
    IF last'.cmd = "merge --continue"
    THEN /\ mainOp \in {"merge", "squash"} /\ mainOpBranch = b /\ ~mainStale
         /\ Has(last'.steps, "git_commit")
    ELSE /\ last'.branch = b
         /\ Has(last'.steps, "git_merge")
         /\ last'.outcome \in {"merged", "MergeAndCleanup"}

\* C30: whenever merge, merge --continue or the snap loop deletes a branch
\* with its worktree, the content of every commit of the branch is in
\* trunk already.
C30_NoWorkLost ==
    [][MergedAndCleaned =>
          \A b \in Names : Deleted(b) => (NothingToLose(b) \/ MergedInThisRun(b))]_vars

\* The same for every command but merge --continue.
C30_NoWorkLostAtMerge ==
    [][(MergedAndCleaned /\ last'.cmd # "merge --continue") =>
          \A b \in Names : Deleted(b) => (NothingToLose(b) \/ MergedInThisRun(b))]_vars

\* A rebase that stopped and was finished by merge --continue: the branch
\* stays, checked out in the main repository, as far ahead of trunk as it
\* was; trunk is not moved.
C30_RebaseFinishKeepsBranch ==
    [][(Ran("merge --continue") /\ mainOp = "rebase" /\ last'.exit = 0) =>
          /\ mainOpBranch \in branches'
          /\ mainHead' = mainOpBranch
          /\ br'[mainOpBranch].ahead = br[mainOpBranch].ahead
          /\ br'[mainOpBranch].integrated = br[mainOpBranch].integrated]_vars

\* ------------------------------------------------------------------------
\* merge --continue that cannot finish
\* ------------------------------------------------------------------------

\* Nothing for `merge --continue` to finish: no operation is in progress and
\* nothing is changed, or the operation in progress has unresolved conflicts
CannotFinish ==
    \/ mainOp = "none" /\ mainEdit = "none"
    \/ mainOp # "none" /\ ~mainResolved

\* C31: a `merge --continue` that cannot finish (no rebase to continue and
\* nothing to commit, or conflicts unresolved) returns an error, runs no
\* post-merge hook and no cleanup, writes no hand-off file, and leaves
\* MergeState, the worktrees, the branches, the metadata and the operation
\* in progress as they were, so that continue or abort can be run again.
C31_FailedContinueChangesNothing ==
    [][(Ran("merge --continue") /\ CannotFinish)
         => /\ last'.exit = 1
            /\ last'.outcome = "continue_failed"
            /\ ~Has(last'.steps, "post_merge_hooks")
            /\ ~Has(last'.steps, "cleanup_worktree")
            /\ ~Has(last'.steps, "clear_merge_state")
            /\ UNCHANGED RepoVars]_vars

\* A continue failed on the unresolved conflict of a merge whose marker,
\* worktree, branch and metadata are all still there.
C31_Witness ==
    /\ last.cmd = "merge --continue" /\ last.exit = 1
    /\ last.outcome = "continue_failed"
    /\ mainOp \in {"squash", "merge", "rebase"} /\ ~mainResolved
    /\ mergeState # Absent /\ mergeState = mainOpBranch
    /\ mergeState \in worktrees \cap branches \cap metas

\* ------------------------------------------------------------------------
\* merge --continue that finishes
\* ------------------------------------------------------------------------

\* The steps of run that follow continue_merge
AfterContinue(step) ==
    step \in {"clear_merge_state", "post_merge_hooks", "cleanup_worktree",
              "write_path_file"}

C32_WitnessNoMarker ==
    /\ last.cmd = "merge --continue" /\ last.exit = 0
    /\ last.branch = Absent
    /\ Has(last.steps, "git_commit")
    /\ worktrees # {}

\* ------------------------------------------------------------------------
\* merge --abort: three attempts
\* ------------------------------------------------------------------------

AbortAttempt(step) ==
    step \in {"merge_abort:ok", "merge_abort:fail", "rebase_abort:ok",
              "rebase_abort:fail", "reset_merge:ok", "reset_merge:fail"}

\* C33: `merge --abort` tries merge --abort, rebase --abort and
\* reset --merge in this order; each attempt ends as git ends it, the
\* first success is the last attempt made, and the command fails exactly
\* when all three attempts failed.
C33_FirstAbortThatSucceedsWins ==
    [][Ran("merge --abort")
         => LET tried == SelectSeq(last'.steps, AbortAttempt)
            IN /\ tried \in {<<"merge_abort:ok">>,
                              <<"merge_abort:fail", "rebase_abort:ok">>,
                              <<"merge_abort:fail", "rebase_abort:fail",
                                "reset_merge:ok">>,
                              AllAbortsFailed}
               /\ tried[1] = "merge_abort:ok" <=> merge_abort_ok(Cur)
               /\ Len(tried) >= 2
                     => (tried[2] = "rebase_abort:ok" <=> rebase_abort_ok(Cur))
               /\ Len(tried) = 3
                     => (tried[3] = "reset_merge:ok" <=> reset_merge_ok(Cur))
               /\ last'.exit # 0 <=> tried = AllAbortsFailed]_vars

\* A stopped rebase was aborted by the second attempt, after which no
\* third attempt was made.
C33_Witness ==
    /\ last.cmd = "merge --abort" /\ last.exit = 0
    /\ last.steps = <<"merge_abort:fail", "rebase_abort:ok", "clear_merge_state">>
    /\ mainOp = "none" /\ mergeState = Absent

\* ------------------------------------------------------------------------
\* merge --keep
\* ------------------------------------------------------------------------

Kept == UNCHANGED <<worktrees, wtBranch, branches, metas, tomls>>

\* C34: with --keep a merge removes no worktree, branch or metadata,
\* neither when it succeeds at once nor when it stopped on a conflict and
\* is completed with `merge --continue --keep`.
C34_KeepRemovesNothing ==
    [][((Ran("merge") \/ Ran("merge --continue")) /\ Has(last'.steps, "--keep"))
         => Kept]_vars

\* The part that holds: `merge --keep` itself removes nothing.
C34_KeepAtMerge ==
    [][(Ran("merge") /\ Has(last'.steps, "--keep")) => Kept]_vars

\* The cleanup of `merge --continue` does not depend on --keep.
C34_ContinueIgnoresKeep ==
    [][Ran("merge --continue")
         => \A post \in HookOutcomes, commitOk \in BOOLEAN, pf \in BOOLEAN :
              merge_continue_run(Cur, TRUE, post, commitOk, pf)
                = merge_continue_run(Cur, FALSE, post, commitOk, pf)]_vars

\* ------------------------------------------------------------------------
\* wt clean
\* ------------------------------------------------------------------------

\* What the report of a run of clean says it counted as cleaned
Counted(d) ==
    \E i, j \in 1..Len(last'.steps) :
       /\ last'.steps[i] = "counted" /\ last'.steps[j] = "steps" /\ i < j
       /\ \E k \in (i + 1)..(j - 1) : last'.steps[k] = d

\* The worktree d, its branch and its metadata file are as before the run
Intact(d) ==
    /\ d \in worktrees' /\ wtBranch'[d] = wtBranch[d] /\ wtDirty'[d] = wtDirty[d]
    /\ wtBranch[d] \in branches => wtBranch[d] \in branches'
    /\ wtBranch[d] \in metas => wtBranch[d] \in metas'

C35_CleanRemovesOnlyMerged ==
    [][Ran("clean")
         => /\ \A d \in worktrees \ worktrees' :
                  ~has_diff_from(Cur, wtBranch[d]) /\ ~wtDirty[d]
            /\ \A d \in worktrees :
                  has_diff_from(Cur, wtBranch[d]) => Intact(d) /\ ~Counted(d)
            /\ \A d \in worktrees : wtDirty[d] => d \in worktrees']_vars

\* ------------------------------------------------------------------------
\* Metadata over the life of a worktree
\* ------------------------------------------------------------------------

\* The name under which the metadata found for worktree n was written by
\* `wt new` ({n}.status.toml is always what `wt new n` wrote)
WrittenFor(n) == IF n \in metas THEN n ELSE tomls[n]

\* The same after the step
WrittenAfter(n) == IF n \in metas' THEN n ELSE tomls'[n]

\* The directory a successful `wt mv` has just made
Renamed == CHOOSE d \in worktrees' : d \notin worktrees

\* The step is a run of a command that removes worktrees
RanRemoval ==
    Ran("rm") \/ Ran("clean") \/ Ran("merge") \/ Ran("merge --continue")

\* C36: metadata follows the worktree.  A rename leaves no metadata file
\* under the old name and the file under the new name holds what was
\* written when the worktree was created; after the removal of a worktree,
\* by rm, clean or the cleanup of a merge, no metadata file of its name
\* remains.
C36_MetadataFollowsWorktree ==
    [][/\ (Ran("mv") /\ last'.exit = 0)
          => /\ ~has_meta(Cur', last'.branch)
             /\ has_meta(Cur, last'.branch)
                   => /\ has_meta(Cur', Renamed)
                      /\ WrittenAfter(Renamed) = WrittenFor(last'.branch)
       /\ RanRemoval
          => \A d \in worktrees \ worktrees' : ~has_meta(Cur', d)]_vars

\* The part that holds: a rename moves the metadata to the new name with
\* its content whenever the old name has one metadata file, and a worktree
\* that kept the name it was created with leaves no {name}.status.toml
\* behind when it is removed.
C36_RenameKeepsContent ==
    [][/\ (Ran("mv") /\ last'.exit = 0
              /\ ~(last'.branch \in metas /\ tomls[last'.branch] # Absent))
          => /\ ~has_meta(Cur', last'.branch)
             /\ has_meta(Cur, last'.branch)
                   => tomls'[Renamed] = WrittenFor(last'.branch)
       /\ RanRemoval
          => \A d \in worktrees \ worktrees' : d \notin metas']_vars

\* ------------------------------------------------------------------------
\* wt new as one unit
\* ------------------------------------------------------------------------

\* Worktree, branch and metadata file of b all exist after the step
AllCreated(b) ==
    /\ b \in worktrees' /\ wtBranch'[b] = b
    /\ b \in branches' /\ b \in metas'

\* No worktree, branch or metadata file exists that did not exist before
NothingNew ==
    /\ worktrees' \subseteq worktrees /\ branches' \subseteq branches
    /\ metas' \subseteq metas
    /\ \A n \in Names : tomls[n] = Absent => tomls'[n] = Absent

\* C37: `wt new` is one unit.  When it returns an error (worktree exists,
\* invalid base, metadata not written, post-create hook failed) no
\* worktree, branch or metadata file exists that did not exist before;
\* when it succeeds the worktree, the branch and the metadata file exist.
C37_CreateAllOrNothing ==
    [][Ran("new")
         => IF last'.exit # 0 THEN NothingNew ELSE AllCreated(last'.branch)]_vars

\* The part that holds: a create that succeeds leaves all three, and a
\* create that fails before `git worktree add` has succeeded (worktree
\* exists, path exists, invalid base) leaves nothing new.
C37_CreateFailsEarlyOrSucceeds ==
    [][Ran("new")
         => /\ last'.exit = 0 => AllCreated(last'.branch)
            /\ (last'.exit # 0 /\ ~Has(last'.steps, "create_worktree"))
                  => UNCHANGED RepoVars]_vars

\* ------------------------------------------------------------------------
\* Writes of the hand-off file
\* ------------------------------------------------------------------------

IsWrite(step) == step = "write_path_file"

\* The calls of write_path_file / write_path_file_lines in the run reported
Writes == Len(SelectSeq(last'.steps, IsWrite))

\* A hand-off file path was given to the run reported (the shell wrapper
\* always gives one to snap-continue)
PathFileGiven == Has(last'.steps, "--path-file") \/ last'.cmd = "snap-continue"

\* The step is the run of a command of the program
RanCommand ==
    /\ last = NoLast
    /\ last'.cmd \in {"new", "merge", "merge --continue", "merge --abort",
                     "snap-continue", "run_snap_mode"}

C38_WitnessNoWrite ==
    /\ last.cmd = "snap-continue" /\ last.exit = 3
    /\ Has(last.steps, "rollback")
    /\ pathFile = Absent

\* ------------------------------------------------------------------------
\* determine_action and determine_action_with_choice
\* ------------------------------------------------------------------------

Determined == probe.fn = "determine" /\ probe.production # Pending

\* C39: for every context and every outcome of the prompt, determine_action
\* returns the action that determine_action_with_choice returns for the
\* choice that stands for the prompt's answer (no choice for a prompt that
\* failed or did not parse).
C39_SameDecision ==
    Determined => (probe.production = probe.prompt_free
                   /\ probe.production \in SnapActions)

\* "M" and a line break typed at the merge prompt: both functions merge.
C39_Witness ==
    /\ Determined
    /\ ~probe.has_uncommitted /\ probe.has_commits_ahead
    /\ probe.read_ok /\ probe.input = <<"M", NL>>
    /\ probe.production = "MergeAndCleanup"
    /\ probe.prompt_free = "MergeAndCleanup"

\* Two letters typed at the exit prompt do not parse: both functions keep
\* the worktree.
C39_WitnessUnparsable ==
    /\ Determined
    /\ probe.has_uncommitted
    /\ probe.read_ok /\ probe.input = <<"r", "r", NL>>
    /\ probe.production = "ExitPreserve"
    /\ probe.prompt_free = "ExitPreserve"

\* ------------------------------------------------------------------------
\* The update-check thread
\* ------------------------------------------------------------------------

Exited == probe.fn = "main" /\ probe.pc = "exited"

ThreadStarted == probe.thread # "none"

\* C40: whenever the update-check thread was started it has finished and
\* was joined when the process exits, on every exit path (a command that
\* succeeds, a command that reports an error, snap-continue ending with 0,
\* 2 or 3), and the command starts without waiting for the thread.
C40_JoinedBeforeExit ==
    /\ (Exited /\ ThreadStarted /\ probe.command # "usage")
          => (probe.joined /\ probe.thread = "done")
    /\ (probe.fn = "main" /\ probe.pc = "parse") => ENABLED CliParse

\* The part that holds: when cli.run() returns, with Ok or with Err, the
\* thread is joined before the process exits and its message is out; and
\* the command is never kept from starting.
C40_JoinedWhenRunReturns ==
    /\ (Exited /\ ThreadStarted /\ probe.command \in {"Ok", "Err"})
          => /\ probe.joined /\ probe.thread = "done" /\ probe.marked
             /\ probe.printed <=> probe.latest = "newer"
             /\ probe.code = IF probe.command = "Err" THEN "1" ELSE "0"
    /\ (probe.fn = "main" /\ probe.pc = "parse") => ENABLED CliParse
    /\ (probe.fn = "main" /\ probe.pc = "run") => ENABLED CliRun

====
